---- MODULE Spec2Model ----
(***************************************************************************)
(* pbtranscript job runner (RunnerUtils.py): submission of a batch of      *)
(* commands to SGE, the polling wait with its two timeout policies, and    *)
(* the rescue of the jobs the wait killed.                                 *)
(*                                                                         *)
(* Strings that the code inspects are sequences of tokens: a command is    *)
(* <<"timeout", "10", "a.py">>, a qstat state code is <<"h", "q", "w">>.   *)
(* Python's None for a timeout is the empty tuple, a set timeout t is <<t>>.*)
(***************************************************************************)
EXTENDS Integers, Sequences, FiniteSets, TLC

\* ------------------------------------------------------------------ bounds
MaxCmds == 2
MaxCycles == 3
MaxRescueTimes == 2
MaxQsubTry == 2
MaxLocalCmds == 3
MaxThreads == 2
MaxBins == 3
MaxChunks == 3
MaxPairJobs == 1
MaxPairCycles == 2
MaxTodo == 3

\* ------------------------------------------------------------- input sets
None == <<>>
Some(x) == <<x>>
IsSet(t) == t # None
Val(t) == t[1]

\* timeouts are None or a positive number of seconds
WaitTimeouts == {None, Some(5), Some(10), Some(15), Some(30)}
RunTimeouts == {None, Some(10), Some(20)}
\* sge_job_runner is run with a wait cap (its default is 600), so that every
\* wait inside it ends by itself
RunnerWaitTimeouts == {Some(10), Some(20)}
RunnerRunTimeouts == {None, Some(10)}
\* None, the two rescue modes, and a string that is neither
RescueModes == {"None", "locally", "sge", "local"}
CmdPool == {<<"a.py">>, <<"timeout", "5", "b.py">>}
ScriptNames == <<"s1.sh", "s2.sh", "s3.sh", "s4.sh">>
OtherJid == "other"
StateCodes == {<<"r">>, <<"q", "w">>, <<"h", "q", "w">>}

SeqsUpTo(S, n) == UNION {[1..k -> S] : k \in 0..n}
Range(s) == {s[i] : i \in DOMAIN s}
Perms(S) == {p \in [1..Cardinality(S) -> S] : \A i, j \in DOMAIN p : p[i] = p[j] => i = j}
Min(a, b) == IF a < b THEN a ELSE b

VARIABLES
    cmds_list, script_files, qsub_try_times, wait_timeout, run_timeout,
    rescue, rescue_times,
    pc, idx, try_times, jids, jids_to_cmds, jids_to_scripts, files, next_jid,
    count, time_passed, runtime_passed, killed_jobs, active_d, wait_ret,
    killed_cmds, killed_scripts, k, ret, result, error,
    polls, sge_up, qdel_log, calls, killed_log, local_runs, qsub_log, qdel_failed,
    ljr, icq, pair, sub

params == <<cmds_list, script_files, qsub_try_times, wait_timeout, run_timeout,
            rescue, rescue_times>>
submitv == <<idx, try_times, jids, jids_to_cmds, jids_to_scripts, files, next_jid,
             qsub_log>>
waitv == <<count, time_passed, runtime_passed, killed_jobs, active_d, wait_ret,
           polls, sge_up, qdel_log, qdel_failed>>
rescuev == <<killed_cmds, killed_scripts, k, ret, local_runs>>
\* the state of sge_job_runner and of the wait_for_sge_jobs it calls
runnerv == <<params, submitv, waitv, rescuev, pc, result, error, calls, killed_log>>
\* the state of the other programs: a call of local_job_runner (ljr), the
\* invocations of IceQuiver over one set of clusters (icq), two calls of
\* wait_for_sge_jobs at the same time (pair), a call of
\* submit_todo_quiver_jobs (sub)
otherv == <<ljr, icq, pair, sub>>
vars == <<runnerv, otherv>>

\* ------------------------------------------------- strings and small helpers
\* str.startswith on a tokenised string
StartsWith(s, tok) == Len(s) >= 1 /\ s[1] = tok

\* zip(a, b)
\* faulty variant: the second list is taken from its end
Zip_Crossed(a, b) ==
    [i \in 1..Min(Len(a), Len(b)) |-> <<a[i], b[Min(Len(a), Len(b)) + 1 - i]>>]

Zip(a, b) == [i \in 1..Min(Len(a), Len(b)) |-> <<a[i], b[i]>>]

\* ------------------------------------------------------------ the scheduler
\* Text printed by qstat: a sequence of lines, a line a sequence of fields.
QstatHeader == <<"job-ID", "prior", "name", "user", "state", "submit/start">>
QstatRule == <<"-----------------------------------------------------------">>
QstatRow(jid, code) == <<jid, "0.55500", "script", "user", code, "11/03/2016">>

\* A healthy scheduler lists every job it holds, one row per job, in the
\* order of submission.
QstatText(order, listing) ==
    LET listed == SelectSeq(order, LAMBDA j : j \in DOMAIN listing)
    IN  IF Len(listed) = 0 THEN <<>>
        ELSE <<QstatHeader, QstatRule>>
               \o [i \in 1..Len(listed) |-> QstatRow(listed[i], listing[listed[i]])]

Listings(js) ==
    UNION {[S -> StateCodes] : S \in SUBSET js}

\* What qstat prints when the scheduler cannot be reached: nothing on stdout
\* (the error goes to stderr), or a listing cut short inside a row.
UnreachableText == {<<>>, <<QstatHeader, QstatRule, <<"error:", "commlib", "error">>>>}

\* Another user's job is listed whenever the scheduler answers.
QstatOutputs(up, js) ==
    IF up THEN {QstatText(Append(js, OtherJid),
                          [j \in DOMAIN l \cup {OtherJid} |->
                              IF j = OtherJid THEN <<"r">> ELSE l[j]]) :
                   l \in Listings(Range(js))}
    ELSE UnreachableText

\* get_active_sge_jobs: fields 1 and 5 of every line after the two header
\* lines; any exception becomes RuntimeError.
get_active_sge_jobs(out) ==
    LET stuff == IF Len(out) = 0 THEN <<<<>>>> ELSE out
        rows == SubSeq(stuff, 3, Len(stuff))
    IN  IF \E i \in DOMAIN rows : Len(rows[i]) < 5
        THEN [raised |-> TRUE, d |-> <<>>]
        ELSE [raised |-> FALSE,
              d |-> [j \in {rows[i][1] : i \in DOMAIN rows} |->
                        LET last == CHOOSE i \in DOMAIN rows :
                                      /\ rows[i][1] = j
                                      /\ \A m \in DOMAIN rows : rows[m][1] = j => m <= i
                        IN  rows[last][5]]]

\* ------------------------------------------------------- wait_for_sge_jobs
check_sge_every_n_seconds == 10

\* faulty variant: the jobs count as done as soon as one of them is unlisted
NotDone_UntilOneGone(js, d) == IF Range(js) \subseteq DOMAIN d THEN Range(js) ELSE {}

\* faulty variant: after the first cycle a job that the poll before did not
\* list stays out of the outstanding set
NotDone_NotRecomputed(js, d) ==
    IF count = 0 THEN Range(js) \cap DOMAIN d
    ELSE Range(js) \cap DOMAIN d \cap DOMAIN active_d

\* not_done_jids = list(set(jids).intersection(set(active_d.keys())))
NotDone(js, d) == Range(js) \cap DOMAIN d

\* faulty variant: the elapsed wait is not advanced
Slept_NotAdvanced(tp) == tp

\* time_passed += check_sge_every_n_seconds
Slept(tp) == tp + check_sge_every_n_seconds

\* faulty variant: the cap must be exceeded, not reached
WaitTimedOut_Strict(wt, tp) == IsSet(wt) /\ tp > Val(wt)

\* faulty variant: a missing cap counts as a cap already reached
WaitTimedOut_NoneIsReached(wt, tp) == ~IsSet(wt) \/ tp >= Val(wt)

\* wait_timeout is not None and time_passed >= wait_timeout
WaitTimedOut(wt, tp) == IsSet(wt) /\ tp >= Val(wt)

\* faulty variant: running time is counted whatever the state code
Accumulate_AnyState(rp, nd, d) ==
    [j \in DOMAIN rp |->
        IF j \in nd THEN rp[j] + check_sge_every_n_seconds ELSE rp[j]]

\* faulty variant: the running time left over from the sleep before is added
\* as well
Accumulate_WithCarry(rp, nd, d) ==
    [j \in DOMAIN rp |->
        IF j \in nd /\ StartsWith(d[j], "r")
        THEN rp[j] + check_sge_every_n_seconds + (check_sge_every_n_seconds \div 2)
        ELSE rp[j]]

\* the for loop that updates runtime_passed
Accumulate(rp, nd, d) ==
    [j \in DOMAIN rp |->
        IF j \in nd /\ StartsWith(d[j], "r")
        THEN rp[j] + check_sge_every_n_seconds ELSE rp[j]]

\* faulty variant: a job is taken one poll interval before its running time
\* reaches the cap
ToKill_OneCycleEarly(nd, rp, rt) ==
    {j \in nd : rp[j] + check_sge_every_n_seconds >= Val(rt)}

\* to_kill_jids
ToKill(nd, rp, rt) == {j \in nd : rp[j] >= Val(rt)}

\* killed_jobs.extend(S); killed_jobs is kept as the multiplicity of each jid
Extend(kj, S) == [j \in DOMAIN kj |-> IF j \in S THEN kj[j] + 1 ELSE kj[j]]

\* set(killed_jobs)
KilledSet(kj) == {j \in DOMAIN kj : kj[j] > 0}

\* faulty variant: return killed_jobs as it is, an id once per kill
ReturnedLists_NoDedup(kj) ==
    {s \in UNION {[1..n -> DOMAIN kj] : n \in 0..(MaxCycles * Cardinality(DOMAIN kj))} :
       \A j \in DOMAIN kj : Cardinality({i \in DOMAIN s : s[i] = j}) = kj[j]}

\* list(set(killed_jobs)): each killed id once, in any order
ReturnedLists(kj) == Perms(KilledSet(kj))

\* kill_sge_jobs: one qdel per jid, exit code ignored; the log keeps who was
\* killed, in which cycle and under which policy
Qdel(log, S, cycle, policy) ==
    log \cup {[jid |-> j, cycle |-> cycle, policy |-> policy] : j \in S}

\* the jobs whose qdel exited non-zero so far, when that is kept track of
\* (qdel_failed set), with those of one more call of kill_sge_jobs
QdelFailed(qf, failing) == IF IsSet(qf) THEN Some(Val(qf) \cup failing) ELSE qf

\* the sets of jobs whose qdel may exit non-zero in one call of kill_sge_jobs
\* on S: any subset; where the exit codes are not kept track of they are not
\* told apart
QdelFailures(qf, S) == IF IsSet(qf) THEN SUBSET S ELSE {{}}

\* faulty variant: a job counts as killed only when its qdel exited 0
Killed_OnlyIfQdelWorked(S, failing) == S \ failing

\* the ids added to killed_jobs after kill_sge_jobs(S), where the qdel of the
\* ids in failing exited non-zero: kill_sge_jobs returns nothing
Killed(S, failing) == S

\* ---------------------------------------------------------- sge_job_runner
\* faulty variant: the prefix is added whatever the command starts with
Prefixed_Always(rt, cmd) ==
    IF IsSet(rt) THEN <<"timeout", ToString(Val(rt))>> \o cmd ELSE cmd

\* cmd = "timeout %d %s" % (run_timeout, cmd) unless it starts with "timeout"
Prefixed(rt, cmd) ==
    IF IsSet(rt) /\ ~StartsWith(cmd, "timeout")
    THEN <<"timeout", ToString(Val(rt))>> \o cmd
    ELSE cmd

\* write_cmd_to_script for a str cmd
ScriptText(cmd) == <<"#!/bin/bash", cmd>>

\* qsub's acknowledgment and the job id parsed from it
QsubAck(n, script) ==
    <<"Your", "job", ToString(n), script, "has", "been", "submitted">>
JobIdOf(out) == out[3]

\* faulty variant: the for loop ends one command early
MoreToSubmit_DropsLast(i, cmds) == i < Len(cmds)

\* for cmd, script in zip(cmds_list, script_files): a turn is left
MoreToSubmit(i, cmds) == i <= Len(cmds)

\* faulty variant: one attempt more than qsub_try_times
MayTry_OneMore(t, n) == t <= n + 1

\* sge_submit: while try_times <= qsub_try_times
MayTry(t, n) == t <= n

\* sge_submit: time.sleep(5) after a failed attempt
qsub_retry_sleep == 5

\* one run of the qsub command by sge_submit: its exit code, what it printed
\* and the sleep that followed
QsubAttempt(code, out) ==
    [code |-> code, out |-> out, slept |-> IF code = 0 THEN 0 ELSE qsub_retry_sleep]
QsubErrorText == <<"Unable", "to", "run", "job">>

\* faulty variant: the commands that exited 0 are reported
FailedCmds_ExitZero(cmds, rets) ==
    LET F[i \in 0..Len(cmds)] ==
          IF i = 0 THEN <<>>
          ELSE IF rets[i] = 0 THEN Append(F[i - 1], cmds[i]) ELSE F[i - 1]
    IN  F[Len(cmds)]

\* local_job_runner's failed_cmds for exit codes rets
FailedCmds(cmds, rets) ==
    LET F[i \in 0..Len(cmds)] ==
          IF i = 0 THEN <<>>
          ELSE IF rets[i] # 0 THEN Append(F[i - 1], cmds[i]) ELSE F[i - 1]
    IN  F[Len(cmds)]

\* faulty variant: a spent budget does not stop the rescue
NoRescue_BudgetIgnored(r, n) == r = "None"

\* rescue is None or rescue_times <= 0
NoRescue(r, n) == r = "None" \/ n <= 0

\* the cmds_list and script_files of the recursive call
ResubmitCmds(kc) == <<>>
ResubmitScripts(ks) == <<>>

\* -------------------------------------------------------- local_job_runner
\* commands run locally are strings the code does not look into
LocalCmdPool == {"true", "false", "a.py"}

\* the exit codes a command can end with
ExitCodes(cmd) ==
    IF cmd = "true" THEN {0} ELSE IF cmd = "false" THEN {1} ELSE {0, 1}

\* what backticks(x, merge_stderr=True) can return for a command that ended
\* with code: (output lines, exit code, error message); the output is empty
\* or one line
Backticks(cmd, code) == {<<out, code, "">> : out \in {<<>>, <<<<"output of", cmd>>>>}}

\* the state of a call of local_job_runner; tasks holds, for every command,
\* where its task of pool.map is: "pending", "running", "done" with what
\* backticks returned, or "unspawned" when its process could not be started
LocalCall(cmds, n, te, at) ==
    [pc |-> at, cmds_list |-> cmds, num_threads |-> n, throw_error |-> te,
     tasks |-> [i \in DOMAIN cmds |-> [st |-> "pending", ret |-> None]],
     rets |-> None, result |-> None, error |-> "none", errmsg |-> <<>>]
LocalIdle == LocalCall(<<>>, 1, FALSE, "idle")

\* the commands being executed by the threads of the pool
Executing(tasks) == {i \in DOMAIN tasks : tasks[i].st = "running"}

\* failed_cmds_out: rets[i][0] of the commands with rets[i][1] != 0
FailedCmdsOut(rets) ==
    LET F[i \in 0..Len(rets)] ==
          IF i = 0 THEN <<>>
          ELSE IF rets[i][2] # 0 THEN Append(F[i - 1], rets[i][1]) ELSE F[i - 1]
    IN  F[Len(rets)]

\* faulty variant: failing commands are an error whatever throw_error is
Throws_AnyFailure(te, failed) == Len(failed) > 0

\* throw_error and len(failed_cmds) > 0
Throws(te, failed) == te /\ Len(failed) > 0

\* faulty variant: only the first failed command is in the message
ErrMsg_FirstOnly(failed, outs) ==
    [i \in 1..Min(1, Min(Len(failed), Len(outs))) |-> <<"CMD failed:", failed[i], outs[i]>>]

\* errmsg: a line "CMD failed: <cmd>, <out>" for each pair of
\* zip(failed_cmds, failed_cmds_out)
ErrMsg(failed, outs) ==
    [i \in 1..Min(Len(failed), Len(outs)) |-> <<"CMD failed:", failed[i], outs[i]>>]

\* ---------------------------------------------------------------- IceQuiver
Max(a, b) == IF a > b THEN a ELSE b

\* for i in xrange(start, end, 100): cids = keys[i:min(end, i + 100)]
BinSize == 100

\* s[a:b] of Python for 0 <= a, 0 <= b: indices a .. b-1, counted from 0 and
\* cut at the end of s
PySlice(s, a, b) == SubSeq(s, Min(a, Len(s)) + 1, Min(b, Len(s)))

\* faulty variant: an empty range is let through
NoBins_EmptyPasses(keys, start, end) ==
    start < 0 \/ start > Len(keys) \/ end > Len(keys)

\* the first line of create_quiver_bins_and_submit_jobs: return [] at once
NoBins(keys, start, end) ==
    start >= end \/ start < 0 \/ start > Len(keys) \/ end > Len(keys)

\* faulty variant: the bin runs up to i + 100 whatever end is
BinCids_PastEnd(keys, i, end) == PySlice(keys, i, i + BinSize)

\* faulty variant: a bin whose script is on disk already is cut down to its
\* first cluster
BinCids_CutWhenWritten(keys, i, end) ==
    IF \E w \in icq.written :
         w.what = "script" /\ w.content = PySlice(keys, i, Min(end, i + BinSize))
    THEN PySlice(keys, i, Min(end, i + 1))
    ELSE PySlice(keys, i, Min(end, i + BinSize))

\* cids = keys[i:min(end, i + 100)]
BinCids(keys, i, end) == PySlice(keys, i, Min(end, i + BinSize))

\* quivered_dir + "/c{first}to{last}", the path as its pieces
quivered_bin_prefix(first, last) ==
    <<"quivered_dir", "/c", ToString(first), "to", ToString(last)>>

script_of_quivered_bin(first, last) ==
    quivered_bin_prefix(first, last) \o <<".sh">>

\* first, last = cids[0], cids[-1]; the script that create_quiver_sh_for_bin
\* opens for writing and returns
create_quiver_sh_for_bin(cids) ==
    script_of_quivered_bin(cids[1], cids[Len(cids)])

\* the decimal digits of n >= 0, as "{first}".format(first=n) writes them
RECURSIVE Digits(_)
Digits(n) ==
    IF n < 10 THEN <<ToString(n)>> ELSE Append(Digits(n \div 10), ToString(n % 10))

\* quivered_dir is a directory name set outside this file; these characters
\* stand for it
QuiveredDirChars == <<"q", "u", "i", "v", "e", "r", "e", "d">>

\* the characters of a path built by script_of_quivered_bin, one by one
RECURSIVE PathChars(_)
PathChars(path) ==
    IF path = <<>> THEN <<>>
    ELSE LET piece == path[1]
             chars == CASE piece = "quivered_dir" -> QuiveredDirChars
                        [] piece = "/c" -> <<"/", "c">>
                        [] piece = "to" -> <<"t", "o">>
                        [] piece = ".sh" -> <<".", "s", "h">>
                        [] OTHER -> LET n == CHOOSE m \in 0..(MaxBins + 1) * BinSize * 4 :
                                                 ToString(m) = piece
                                    IN Digits(n)
         IN chars \o PathChars(Tail(path))

\* bin_scripts += bin_sh with bin_sh a str: the list is extended by the
\* items the right-hand side yields when iterated, the characters of the path
ListExtendByStr(list, path) == list \o PathChars(path)

\* faulty variant: the name of the log does not tell the chunks apart
submitted_quiver_jobs_log_NoIndex(i, num_chunks) ==
    <<"log_dir", "/submitted_quiver_jobs.", "0", "of", ToString(num_chunks), ".txt">>

\* op.join(log_dir, "submitted_quiver_jobs.{i}of{N}.txt")
submitted_quiver_jobs_log_of_chunk_i(i, num_chunks) ==
    <<"log_dir", "/submitted_quiver_jobs.", ToString(i), "of",
      ToString(num_chunks), ".txt">>

\* op.join(log_dir, "quiver_jobs.{i}of{N}.sh")
quiver_jobs_sh_of_chunk_i(i, num_chunks) ==
    <<"log_dir", "/quiver_jobs.", ToString(i), "of", ToString(num_chunks), ".sh">>

\* op.join(out_dir, "cluster_report.FL_nonFL.csv")
report_fn == <<"out_dir", "/cluster_report.FL_nonFL.csv">>

\* faulty variant: the quotient is rounded down
num_clusters_per_chunk_Floor(total, num_chunks) == total \div num_chunks

\* int(ceil(len(keys) / float(num_chunks))), num_chunks >= 1
num_clusters_per_chunk(total, num_chunks) ==
    (total + num_chunks - 1) \div num_chunks

\* faulty variant: without max(0, ...)
num_clusters_in_chunk_i_NoMax(total, num_chunks, i) ==
    Min(total - i * num_clusters_per_chunk(total, num_chunks),
        num_clusters_per_chunk(total, num_chunks))

\* max(0, min(len(keys) - i * num_clusters_per_chunk, num_clusters_per_chunk))
num_clusters_in_chunk_i(total, num_chunks, i) ==
    Max(0, Min(total - i * num_clusters_per_chunk(total, num_chunks),
               num_clusters_per_chunk(total, num_chunks)))

ChunkStart(total, num_chunks, i) == i * num_clusters_per_chunk(total, num_chunks)

ChunkEnd(total, num_chunks, i) ==
    ChunkStart(total, num_chunks, i) + num_clusters_in_chunk_i(total, num_chunks, i)

\* one invocation: process_chunk_i(i, num_chunks), or a call of
\* create_quiver_bins_and_submit_jobs(keys, start, end) when at = "guard"
IceCall(i, n, start, end, at) ==
    [i |-> i, num_chunks |-> n, pc |-> at, start |-> start, end |-> end,
     pos |-> start, bins |-> <<>>, all_todo |-> <<>>, ret |-> None,
     submitted |-> <<>>, bin_scripts |-> <<>>, error |-> "none", from |-> at]

\* no invocation of IceQuiver
IcqIdle ==
    [keys |-> <<>>, use_sge |-> FALSE, procs |-> <<>>, written |-> {}, next_jid |-> 1]

\* ------------------------------------------------------------------- state
WaitLocals(js) ==
    /\ count' = 0
    /\ time_passed' = 0
    /\ runtime_passed' = [j \in Range(js) |-> 0]
    /\ killed_jobs' = [j \in Range(js) |-> 0]

NoJobs == [j \in {} |-> 0]

\* ------------------------------------- wait_for_sge_jobs, one turn in two steps
\* the locals of one call of wait_for_sge_jobs; killed_jobs, empty at first,
\* can take any of the ids that qstat may list
Waiter(js, wt, rt, ids) ==
    [jids |-> js, wait_timeout |-> wt, run_timeout |-> rt, pc |-> "query",
     count |-> 0, time_passed |-> 0,
     runtime_passed |-> [j \in Range(js) |-> 0],
     killed_jobs |-> [j \in ids |-> 0],
     active_d |-> NoJobs, ret |-> None]

\* the head of the loop: active_d = get_active_sge_jobs(), not_done_jids, and
\* the return when none is left
Queried(st, out) ==
    LET got == get_active_sge_jobs(out)
    IN  IF got.raised THEN [st EXCEPT !.pc = "raised"]
        ELSE IF NotDone(st.jids, got.d) = {}
        THEN [st EXCEPT !.pc = "returned", !.active_d = got.d,
                        !.ret = Some(KilledSet(st.killed_jobs))]
        ELSE [st EXCEPT !.pc = "sleep", !.active_d = got.d]

\* faulty variant: at the wait timeout every listed job is killed
TimedOutKills_AllListed(nd, d) == DOMAIN d

\* kill_sge_jobs(jids=not_done_jids)
TimedOutKills(nd, d) == nd

\* faulty variant: the scheduler is asked again after the sleep and only the
\* jobs it still has are killed
KillsOfTurn_AskedAgain(st) ==
    LET nd == NotDone(st.jids, st.active_d) \cap DOMAIN pair.sge
    IN  IF WaitTimedOut(st.wait_timeout, Slept(st.time_passed))
        THEN TimedOutKills(nd, st.active_d)
        ELSE IF IsSet(st.run_timeout)
        THEN ToKill(nd, Accumulate(st.runtime_passed, nd, st.active_d), st.run_timeout)
        ELSE {}

\* the jids handed to kill_sge_jobs in the rest of the turn
KillsOfTurn(st) ==
    LET nd == NotDone(st.jids, st.active_d)
    IN  IF WaitTimedOut(st.wait_timeout, Slept(st.time_passed))
        THEN TimedOutKills(nd, st.active_d)
        ELSE IF IsSet(st.run_timeout)
        THEN ToKill(nd, Accumulate(st.runtime_passed, nd, st.active_d), st.run_timeout)
        ELSE {}

\* the rest of the turn: the sleep, the two timeouts
SleptAndKilled(st) ==
    LET nd == NotDone(st.jids, st.active_d)
        slept == [st EXCEPT !.count = st.count + 1,
                            !.time_passed = Slept(st.time_passed)]
    IN  IF WaitTimedOut(st.wait_timeout, Slept(st.time_passed))
        THEN [slept EXCEPT !.killed_jobs = Extend(st.killed_jobs, KillsOfTurn(st)),
                           !.pc = "returned",
                           !.ret = Some(KilledSet(Extend(st.killed_jobs,
                                                         KillsOfTurn(st))))]
        ELSE IF IsSet(st.run_timeout)
        THEN [slept EXCEPT !.runtime_passed =
                               Accumulate(st.runtime_passed, nd, st.active_d),
                           !.killed_jobs = Extend(st.killed_jobs, KillsOfTurn(st)),
                           !.pc = "query"]
        ELSE [slept EXCEPT !.pc = "query"]

\* -------------------------------------------------- submit_todo_quiver_jobs
\* a call of submit_todo_quiver_jobs(todo, submitted, sge_opts); todo and
\* submitted are the caller's lists, original and before what they held at the
\* call, qsubs the (job, job id) of every qsub_cmd_and_log that has returned
SubCall(todo, submitted, use_sge, max_sge_jobs, at) ==
    [pc |-> at, use_sge |-> use_sge, max_sge_jobs |-> max_sge_jobs,
     todo |-> todo, original |-> todo, submitted |-> submitted, before |-> submitted,
     slice |-> <<>>, k |-> 1, qsubs |-> <<>>, next_jid |-> 1, error |-> "none"]

\* no call of submit_todo_quiver_jobs
SubIdle == SubCall(<<>>, <<>>, FALSE, 0, "idle")

\* sge_opts.use_sge is not True or sge_opts.max_sge_jobs == 0
DontUseSge(use_sge, max_sge_jobs) == use_sge # TRUE \/ max_sge_jobs = 0

\* s[:n] of Python: the first n elements, or all but the last -n when n < 0
PyFirst(s, n) ==
    IF n >= 0 THEN SubSeq(s, 1, Min(n, Len(s)))
    ELSE SubSeq(s, 1, Max(Len(s) + n, 0))

\* todo[:n] with n = min(sge_opts.max_sge_jobs, len(todo))
SgeBatch(todo, max_sge_jobs) == PyFirst(todo, Min(max_sge_jobs, Len(todo)))

\* faulty variant: every occurrence of x is taken out
RemoveFirst_All(s, x) == SelectSeq(s, LAMBDA y : y # x)

\* s.remove(x): the first occurrence of x is taken out of s
RemoveFirst(s, x) ==
    LET at == CHOOSE i \in DOMAIN s : s[i] = x /\ \A j \in 1..(i - 1) : s[j] # x
    IN  SubSeq(s, 1, at - 1) \o SubSeq(s, at + 1, Len(s))

\* no call of wait_for_sge_jobs next to another
\* late: the jids a call has handed to qdel when the scheduler no longer had them
PairIdle == [sge |-> NoJobs, w |-> <<>>, alone |-> <<>>, qdels |-> <<>>, late |-> <<>>]

\* the state at the call of sge_job_runner, its arguments chosen
RunnerStart ==
    /\ ljr = LocalIdle /\ icq = IcqIdle /\ pair = PairIdle /\ sub = SubIdle
    /\ pc = "start"
    /\ idx = 0 /\ try_times = 0 /\ jids = <<>>
    /\ jids_to_cmds = NoJobs /\ jids_to_scripts = NoJobs
    /\ files = NoJobs /\ next_jid = 1
    /\ count = 0 /\ time_passed = 0 /\ runtime_passed = NoJobs /\ killed_jobs = NoJobs
    /\ active_d = NoJobs /\ wait_ret = None
    /\ killed_cmds = <<>> /\ killed_scripts = <<>> /\ k = 0 /\ ret = <<>>
    /\ result = None /\ error = "none"
    /\ polls = 0 /\ sge_up = TRUE /\ qdel_log = {}
    /\ calls = <<[cmds_list |-> cmds_list, script_files |-> script_files,
                  rescue_times |-> rescue_times]>>
    /\ killed_log = <<>> /\ local_runs = <<>> /\ qsub_log = <<>>

Init ==
    /\ cmds_list \in SeqsUpTo(CmdPool, MaxCmds)
    /\ script_files \in {SubSeq(ScriptNames, 1, n) : n \in 0..MaxCmds}
    /\ qsub_try_times \in {1, MaxQsubTry}
    /\ wait_timeout \in RunnerWaitTimeouts
    /\ run_timeout \in RunnerRunTimeouts
    /\ rescue \in RescueModes
    /\ rescue_times \in 0..MaxRescueTimes
    /\ qdel_failed = None
    /\ RunnerStart

\* -------------------------------------------------- sge_job_runner: submit
\* the length check, then jids = [], jids_to_cmds = {}, jids_to_scripts = {}
CheckArgs ==
    /\ pc = "start"
    /\ IF Len(cmds_list) # Len(script_files)
       THEN /\ pc' = "raised" /\ error' = "ValueError"
            /\ UNCHANGED <<idx, jids, jids_to_cmds, jids_to_scripts>>
       ELSE /\ pc' = "submit" /\ error' = error
            /\ idx' = 1 /\ jids' = <<>>
            /\ jids_to_cmds' = NoJobs /\ jids_to_scripts' = NoJobs
    /\ UNCHANGED <<params, try_times, files, next_jid, qsub_log, waitv, rescuev,
                   result, calls, killed_log>>
    /\ UNCHANGED otherv

\* one turn of the for loop up to the call of sge_submit
WriteScript ==
    /\ pc = "submit"
    /\ MoreToSubmit(idx, cmds_list)
    /\ files' = [f \in DOMAIN files \cup {script_files[idx]} |->
                    IF f = script_files[idx]
                    THEN ScriptText(Prefixed(run_timeout, cmds_list[idx]))
                    ELSE files[f]]
    /\ try_times' = 1
    /\ qsub_log' = <<>>
    /\ pc' = "qsub"
    /\ UNCHANGED <<params, idx, jids, jids_to_cmds, jids_to_scripts, next_jid,
                   waitv, rescuev, result, error, calls, killed_log>>
    /\ UNCHANGED otherv

\* sge_submit: one attempt; on exit code 0 the loop body of the runner ends
QsubTry ==
    /\ pc = "qsub"
    /\ MayTry(try_times, qsub_try_times)
    /\ \E code \in {0, 1} :
         IF code = 0
         THEN LET out == QsubAck(next_jid, script_files[idx])
                  jid == JobIdOf(out)
                  keys == Range(jids) \cup {jid}
              IN  /\ qsub_log' = Append(qsub_log, QsubAttempt(code, out))
                  /\ jids' = Append(jids, jid)
                  /\ jids_to_cmds' = [j \in keys |->
                        IF j = jid THEN Prefixed(run_timeout, cmds_list[idx])
                        ELSE jids_to_cmds[j]]
                  /\ jids_to_scripts' = [j \in keys |->
                        IF j = jid THEN script_files[idx] ELSE jids_to_scripts[j]]
                  /\ next_jid' = next_jid + 1
                  /\ idx' = idx + 1
                  /\ pc' = "submit"
                  /\ UNCHANGED try_times
         ELSE /\ qsub_log' = Append(qsub_log, QsubAttempt(code, QsubErrorText))
              /\ try_times' = try_times + 1
              /\ UNCHANGED <<jids, jids_to_cmds, jids_to_scripts, next_jid, idx, pc>>
    /\ UNCHANGED <<params, files, waitv, rescuev, result, error, calls, killed_log>>
    /\ UNCHANGED otherv

\* faulty variant: a command that could not be submitted is skipped
QsubGiveUp_SkipsCommand ==
    /\ pc = "qsub"
    /\ ~MayTry(try_times, qsub_try_times)
    /\ idx' = idx + 1
    /\ pc' = "submit"
    /\ UNCHANGED <<params, try_times, jids, jids_to_cmds, jids_to_scripts, files,
                   next_jid, qsub_log, waitv, rescuev, result, error, calls, killed_log>>
    /\ UNCHANGED otherv

\* faulty variant: before the error leaves the runner the jobs submitted so
\* far are taken out of the scheduler
QsubGiveUp_KillsSubmitted ==
    /\ pc = "qsub"
    /\ ~MayTry(try_times, qsub_try_times)
    /\ pc' = "raised" /\ error' = "RuntimeError: Unable to qsub CMD"
    /\ qdel_log' = Qdel(qdel_log, Range(jids), 0, "wait")
    /\ UNCHANGED <<params, submitv, rescuev, result, calls, killed_log>>
    /\ UNCHANGED <<count, time_passed, runtime_passed, killed_jobs, active_d, wait_ret,
                   polls, sge_up, qdel_failed>>
    /\ UNCHANGED otherv

\* sge_submit: every attempt failed
QsubGiveUp ==
    /\ pc = "qsub"
    /\ ~MayTry(try_times, qsub_try_times)
    /\ pc' = "raised" /\ error' = "RuntimeError: Unable to qsub CMD"
    /\ UNCHANGED <<params, submitv, waitv, rescuev, result, calls, killed_log>>
    /\ UNCHANGED otherv

\* the call of wait_for_sge_jobs and the set-up of its locals
StartWait ==
    /\ pc = "submit"
    /\ ~MoreToSubmit(idx, cmds_list)
    /\ WaitLocals(jids)
    /\ try_times' = 0
    /\ qsub_log' = <<>>
    /\ pc' = "wait"
    /\ UNCHANGED <<params, idx, jids, jids_to_cmds, jids_to_scripts, files, next_jid,
                   active_d, wait_ret, polls, sge_up, qdel_log, qdel_failed, rescuev,
                   result, error, calls, killed_log>>
    /\ UNCHANGED otherv

\* ------------------------------------------------------- wait_for_sge_jobs
\* break, then return list(set(killed_jobs)): the order of the list is any
WaitReturn(kj) ==
    /\ killed_jobs' = kj
    /\ \E order \in ReturnedLists(kj) : wait_ret' = Some(order)
    /\ pc' = "waited"

\* one turn of the while loop; the scheduler lists requested jobs in at most
\* MaxCycles polls of a wait; any of the qdel commands of a kill may exit
\* non-zero (failing)
WaitPoll ==
    /\ pc = "wait"
    /\ \E up \in BOOLEAN : \E out \in QstatOutputs(up, jids) :
         LET got == get_active_sge_jobs(out)
             nd == NotDone(jids, got.d)
             tp == Slept(time_passed)
             rp == Accumulate(runtime_passed, nd, got.d)
         IN  /\ nd # {} => count < MaxCycles
             /\ sge_up' = up
             /\ polls' = polls + 1
             /\ IF got.raised
                THEN /\ pc' = "raised"
                     /\ error' = "RuntimeError: Unable to get active qsub jobs."
                     /\ UNCHANGED <<count, time_passed, runtime_passed, killed_jobs,
                                    active_d, wait_ret, qdel_log, qdel_failed>>
                ELSE /\ active_d' = got.d
                     /\ error' = error
                     /\ IF nd = {}
                        THEN /\ WaitReturn(killed_jobs)
                             /\ UNCHANGED <<count, time_passed, runtime_passed, qdel_log,
                                            qdel_failed>>
                        ELSE /\ count' = count + 1
                             /\ time_passed' = tp
                             /\ IF WaitTimedOut(wait_timeout, tp)
                                THEN /\ qdel_log' = Qdel(qdel_log, nd, count + 1, "wait")
                                     /\ \E failing \in QdelFailures(qdel_failed, nd) :
                                          /\ qdel_failed' = QdelFailed(qdel_failed, failing)
                                          /\ WaitReturn(Extend(killed_jobs,
                                                               Killed(nd, failing)))
                                     /\ UNCHANGED runtime_passed
                                ELSE IF IsSet(run_timeout)
                                THEN /\ runtime_passed' = rp
                                     /\ qdel_log' = Qdel(qdel_log,
                                           ToKill(nd, rp, run_timeout), count + 1, "run")
                                     /\ \E failing \in QdelFailures(qdel_failed,
                                                      ToKill(nd, rp, run_timeout)) :
                                          /\ qdel_failed' = QdelFailed(qdel_failed, failing)
                                          /\ killed_jobs' = Extend(killed_jobs,
                                                Killed(ToKill(nd, rp, run_timeout), failing))
                                     /\ UNCHANGED <<pc, wait_ret>>
                                ELSE UNCHANGED <<runtime_passed, qdel_log, qdel_failed,
                                                 killed_jobs, pc, wait_ret>>
    /\ UNCHANGED <<params, submitv, rescuev, result, calls, killed_log>>
    /\ UNCHANGED otherv

\* -------------------------------------------------- sge_job_runner: rescue
\* killed_cmds and killed_scripts of the jobs the wait returned; the locals of
\* wait_for_sge_jobs are gone
KilledPairs ==
    /\ pc = "waited"
    /\ killed_cmds' = [i \in DOMAIN Val(wait_ret) |-> jids_to_cmds[Val(wait_ret)[i]]]
    /\ killed_scripts' = [i \in DOMAIN Val(wait_ret) |-> jids_to_scripts[Val(wait_ret)[i]]]
    /\ killed_log' = Append(killed_log, Zip(killed_cmds', killed_scripts'))
    /\ k' = 1 /\ ret' = <<>>
    /\ pc' = "rescue"
    /\ WaitLocals(<<>>) /\ active_d' = NoJobs
    /\ UNCHANGED <<params, submitv, wait_ret, polls, sge_up, qdel_log, qdel_failed,
                   local_runs, result, error, calls>>
    /\ UNCHANGED otherv

\* rescue is None or rescue_times <= 0: return zip(killed_cmds, killed_scripts)
ReturnKilled ==
    /\ pc = "rescue"
    /\ NoRescue(rescue, rescue_times)
    /\ result' = Some(Zip(killed_cmds, killed_scripts))
    /\ pc' = "returned"
    /\ UNCHANGED <<params, submitv, waitv, rescuev, error, calls, killed_log>>
    /\ UNCHANGED otherv

\* rescue == "locally": one turn of the for loop, a call of local_job_runner
\* on [killed_cmd] with throw_error=False
RescueLocally ==
    /\ pc = "rescue"
    /\ ~NoRescue(rescue, rescue_times)
    /\ rescue = "locally"
    /\ k <= Len(killed_cmds)
    /\ \E code \in {0, 1} :
         LET failed == Len(FailedCmds(<<killed_cmds[k]>>, <<code>>)) # 0
         IN  /\ ret' = IF failed
                       THEN Append(ret, <<killed_cmds[k], killed_scripts[k]>>)
                       ELSE ret
             /\ local_runs' = Append(local_runs,
                   [cmd |-> killed_cmds[k], script |-> killed_scripts[k],
                    throw_error |-> FALSE, code |-> code])
    /\ k' = k + 1
    /\ UNCHANGED <<params, submitv, waitv, killed_cmds, killed_scripts, pc, result,
                   error, calls, killed_log>>
    /\ UNCHANGED otherv

\* rescue == "locally": return ret
ReturnRescued ==
    /\ pc = "rescue"
    /\ ~NoRescue(rescue, rescue_times)
    /\ rescue = "locally"
    /\ k > Len(killed_cmds)
    /\ result' = Some(ret)
    /\ pc' = "returned"
    /\ UNCHANGED <<params, submitv, waitv, rescuev, error, calls, killed_log>>
    /\ UNCHANGED otherv

\* rescue == "sge": return sge_job_runner(cmds_list=[], script_files=[], ...,
\* rescue_times=rescue_times - 1); the callee's frame replaces the caller's
RescueSge ==
    /\ pc = "rescue"
    /\ ~NoRescue(rescue, rescue_times)
    /\ rescue = "sge"
    /\ cmds_list' = ResubmitCmds(killed_cmds)
    /\ script_files' = ResubmitScripts(killed_scripts)
    /\ rescue_times' = rescue_times - 1
    /\ calls' = Append(calls, [cmds_list |-> cmds_list', script_files |-> script_files',
                               rescue_times |-> rescue_times'])
    /\ pc' = "start"
    /\ UNCHANGED <<qsub_try_times, wait_timeout, run_timeout, rescue, submitv, waitv,
                   rescuev, result, error, killed_log>>
    /\ UNCHANGED otherv

\* any other rescue: ValueError
RescueUnknown ==
    /\ pc = "rescue"
    /\ ~NoRescue(rescue, rescue_times)
    /\ rescue \notin {"locally", "sge"}
    /\ pc' = "raised" /\ error' = "ValueError"
    /\ UNCHANGED <<params, submitv, waitv, rescuev, result, calls, killed_log>>
    /\ UNCHANGED otherv

Next ==
    \/ CheckArgs
    \/ WriteScript
    \/ QsubTry
    \/ QsubGiveUp
    \/ StartWait
    \/ WaitPoll
    \/ KilledPairs
    \/ ReturnKilled
    \/ RescueLocally
    \/ ReturnRescued
    \/ RescueSge
    \/ RescueUnknown

Spec == Init /\ [][Next]_vars

\* the runner with the exit code of every qdel kept track of: batches of one
\* command repeated, one attempt per submission and a wait cap of two cycles
KillInit ==
    /\ cmds_list \in {[i \in 1..n |-> <<"a.py">>] : n \in 0..MaxCmds}
    /\ script_files \in {SubSeq(ScriptNames, 1, n) : n \in 0..MaxCmds}
    /\ qsub_try_times = 1
    /\ wait_timeout = Some(20)
    /\ run_timeout \in RunnerRunTimeouts
    /\ rescue \in RescueModes
    /\ rescue_times \in {0, 1}
    /\ qdel_failed = Some({})
    /\ RunnerStart

KillSpec == KillInit /\ [][Next]_vars

\* ----------------------------------- wait_for_sge_jobs called on its own
JobIds(n) == [i \in 1..n |-> ToString(i)]

WaitInit ==
    /\ jids \in {JobIds(n) : n \in 0..MaxCmds}
    /\ wait_timeout \in WaitTimeouts
    /\ run_timeout \in RunTimeouts
    /\ pc = "wait"
    /\ count = 0 /\ time_passed = 0
    /\ runtime_passed = [j \in Range(jids) |-> 0]
    /\ killed_jobs = [j \in Range(jids) |-> 0]
    /\ active_d = NoJobs /\ wait_ret = None
    /\ polls = 0 /\ sge_up = TRUE /\ qdel_log = {} /\ qdel_failed = None
    /\ cmds_list = <<>> /\ script_files = <<>> /\ qsub_try_times = 1
    /\ rescue = "None" /\ rescue_times = 0
    /\ idx = 0 /\ try_times = 0
    /\ jids_to_cmds = NoJobs /\ jids_to_scripts = NoJobs
    /\ files = NoJobs /\ next_jid = 1
    /\ killed_cmds = <<>> /\ killed_scripts = <<>> /\ k = 0 /\ ret = <<>>
    /\ result = None /\ error = "none"
    /\ calls = <<>> /\ killed_log = <<>> /\ local_runs = <<>> /\ qsub_log = <<>>
    /\ ljr = LocalIdle /\ icq = IcqIdle /\ pair = PairIdle /\ sub = SubIdle

WaitNext == WaitPoll

WaitSpec == WaitInit /\ [][WaitNext]_vars

\* the wait with wait_timeout set; the while loop keeps running
CappedWaitInit == WaitInit /\ IsSet(wait_timeout)

FairWaitSpec == CappedWaitInit /\ [][WaitNext]_vars /\ WF_vars(WaitNext)

\* ---------------------------------------- local_job_runner called on its own
\* sge_job_runner and wait_for_sge_jobs are not running
RunnerIdle ==
    /\ cmds_list = <<>> /\ script_files = <<>> /\ qsub_try_times = 1
    /\ wait_timeout = None /\ run_timeout = None
    /\ rescue = "None" /\ rescue_times = 0
    /\ pc = "idle"
    /\ idx = 0 /\ try_times = 0 /\ jids = <<>>
    /\ jids_to_cmds = NoJobs /\ jids_to_scripts = NoJobs
    /\ files = NoJobs /\ next_jid = 1
    /\ count = 0 /\ time_passed = 0 /\ runtime_passed = NoJobs /\ killed_jobs = NoJobs
    /\ active_d = NoJobs /\ wait_ret = None
    /\ killed_cmds = <<>> /\ killed_scripts = <<>> /\ k = 0 /\ ret = <<>>
    /\ result = None /\ error = "none"
    /\ polls = 0 /\ sge_up = TRUE /\ qdel_log = {} /\ qdel_failed = None
    /\ calls = <<>> /\ killed_log = <<>> /\ local_runs = <<>> /\ qsub_log = <<>>

\* pool = ThreadPool(processes=num_threads) is set up and pool.map is entered
LocalInit ==
    /\ RunnerIdle /\ icq = IcqIdle /\ pair = PairIdle /\ sub = SubIdle
    /\ ljr \in {LocalCall(cmds, n, te, "map") :
                  cmds \in SeqsUpTo(LocalCmdPool, MaxLocalCmds),
                  n \in 1..MaxThreads, te \in BOOLEAN}

\* a free thread of the pool takes the task of command i and starts its process
RunCmd(i) ==
    /\ ljr.pc # "idle" /\ i \in DOMAIN ljr.tasks
    /\ ljr.tasks[i].st = "pending"
    /\ Cardinality(Executing(ljr.tasks)) < ljr.num_threads
    /\ ljr' = [ljr EXCEPT !.tasks[i].st = "running"]
    /\ UNCHANGED <<runnerv, icq, pair, sub>>

\* a free thread takes the task of command i and the process cannot be
\* started: the task ends with an exception
SpawnFails(i) ==
    /\ ljr.pc # "idle" /\ i \in DOMAIN ljr.tasks
    /\ ljr.tasks[i].st = "pending"
    /\ Cardinality(Executing(ljr.tasks)) < ljr.num_threads
    /\ ljr' = [ljr EXCEPT !.tasks[i].st = "unspawned"]
    /\ UNCHANGED <<runnerv, icq, pair, sub>>

\* the process of command i ends and backticks returns
CmdExits(i) ==
    /\ ljr.pc # "idle" /\ i \in DOMAIN ljr.tasks
    /\ ljr.tasks[i].st = "running"
    /\ \E code \in ExitCodes(ljr.cmds_list[i]) :
         \E r \in Backticks(ljr.cmds_list[i], code) :
           ljr' = [ljr EXCEPT !.tasks[i] = [st |-> "done", ret |-> Some(r)]]
    /\ UNCHANGED <<runnerv, icq, pair, sub>>

\* rets = pool.map(...) returns the results in the order of cmds_list, then
\* pool.close() and pool.join()
MapReturns ==
    /\ ljr.pc = "map"
    /\ \A i \in DOMAIN ljr.tasks : ljr.tasks[i].st = "done"
    /\ ljr' = [ljr EXCEPT !.pc = "joined",
                          !.rets = Some([i \in DOMAIN ljr.tasks |-> Val(ljr.tasks[i].ret)])]
    /\ UNCHANGED <<runnerv, icq, pair, sub>>

\* pool.map raises the exception of a task, as soon as that task has ended or
\* later, whatever the other tasks are doing; close and join are passed over
\* and except subprocess.CalledProcessError: pass leaves rets unassigned
MapRaises ==
    /\ ljr.pc = "map"
    /\ \E i \in DOMAIN ljr.tasks : ljr.tasks[i].st = "unspawned"
    /\ ljr' = [ljr EXCEPT !.pc = "caught"]
    /\ UNCHANGED <<runnerv, icq, pair, sub>>

\* failed_cmds, failed_cmds_out, then raise RuntimeError(errmsg) or return
\* failed_cmds
Report ==
    /\ ljr.pc = "joined"
    /\ LET rets == Val(ljr.rets)
            failed_cmds == FailedCmds(ljr.cmds_list, [i \in DOMAIN rets |-> rets[i][2]])
            failed_cmds_out == FailedCmdsOut(rets)
       IN  IF Throws(ljr.throw_error, failed_cmds)
           THEN ljr' = [ljr EXCEPT !.pc = "raised", !.error = "RuntimeError",
                                   !.errmsg = ErrMsg(failed_cmds, failed_cmds_out)]
           ELSE ljr' = [ljr EXCEPT !.pc = "returned", !.result = Some(failed_cmds)]
    /\ UNCHANGED <<runnerv, icq, pair, sub>>

\* the list comprehension of failed_cmds reads rets, which has no value: with
\* a command in cmds_list that is an UnboundLocalError
ReadRets ==
    /\ ljr.pc = "caught"
    /\ IF Len(ljr.cmds_list) = 0
       THEN ljr' = [ljr EXCEPT !.pc = "returned", !.result = Some(<<>>)]
       ELSE ljr' = [ljr EXCEPT !.pc = "raised", !.error = "UnboundLocalError"]
    /\ UNCHANGED <<runnerv, icq, pair, sub>>

LocalNext ==
    \/ \E i \in 1..MaxLocalCmds : RunCmd(i) \/ SpawnFails(i) \/ CmdExits(i)
    \/ MapReturns
    \/ MapRaises
    \/ Report
    \/ ReadRets

LocalSpec == LocalInit /\ [][LocalNext]_vars

\* ------------------------------------ two calls of wait_for_sge_jobs at once
PairWaitTimeouts == {None, Some(20)}
PairRunTimeouts == {None, Some(10)}

\* what qstat prints while the scheduler holds the jobs of sge, the job of
\* another user among them
QstatOf(order, sge) ==
    QstatText(Append(order, OtherJid),
              [j \in DOMAIN sge \cup {OtherJid} |->
                  IF j = OtherJid THEN <<"r">> ELSE sge[j]])

Restrict(f, S) == [j \in DOMAIN f \cap S |-> f[j]]

AllPairJids == pair.w[1].jids \o pair.w[2].jids

\* two callers wait at the same time, the first for the jobs it has submitted,
\* the second for its one job and with a wait timeout; the jobs are queued or
\* running
PairInit ==
    /\ RunnerIdle /\ ljr = LocalIdle /\ icq = IcqIdle /\ sub = SubIdle
    /\ \E n1 \in 1..MaxPairJobs :
       \E wt1 \in PairWaitTimeouts : \E rt1, rt2 \in PairRunTimeouts :
         LET js1 == JobIds(n1)
             js2 == <<ToString(n1 + 1)>>
             ids == Range(js1) \cup Range(js2) \cup {OtherJid}
             ws == <<Waiter(js1, wt1, rt1, ids), Waiter(js2, Some(20), rt2, ids)>>
         IN  \E sge \in [Range(js1) \cup Range(js2) -> {<<"q", "w">>, <<"r">>}] :
               pair = [sge |-> sge, w |-> ws, alone |-> ws, qdels |-> <<{}, {}>>,
                       late |-> <<{}, {}>>]

\* the scheduler starts a queued job, or a running job ends
JobMoves ==
    /\ \E j \in DOMAIN pair.sge :
         pair' = [pair EXCEPT !.sge =
                    IF pair.sge[j] = <<"r">>
                    THEN Restrict(pair.sge, DOMAIN pair.sge \ {j})
                    ELSE [pair.sge EXCEPT ![j] = <<"r">>]]
    /\ UNCHANGED <<runnerv, ljr, icq, sub>>

\* call i asks the scheduler; the scheduler lists the requested jobs of a call
\* in at most MaxPairCycles of its polls
PairQuery(i) ==
    /\ i \in DOMAIN pair.w /\ pair.w[i].pc = "query"
    /\ \E out \in {QstatOf(AllPairJids, pair.sge)} \cup UnreachableText :
         LET own == Range(pair.w[i].jids)
             seen == IF out \in UnreachableText THEN out
                     ELSE QstatOf(pair.w[i].jids, Restrict(pair.sge, own))
         IN  /\ Queried(pair.w[i], out).pc = "sleep" => pair.w[i].count < MaxPairCycles
             /\ pair' = [pair EXCEPT !.w[i] = Queried(pair.w[i], out),
                                     !.alone[i] = Queried(pair.alone[i], seen)]
    /\ UNCHANGED <<runnerv, ljr, icq, sub>>

\* call i sleeps, counts and kills; the jobs it kills leave the scheduler, or
\* (qdel without effect) stay
PairSleepKill(i) ==
    /\ i \in DOMAIN pair.w /\ pair.w[i].pc = "sleep"
    /\ \E works \in BOOLEAN :
         /\ KillsOfTurn(pair.w[i]) = {} => works
         /\ pair' = [pair EXCEPT
                !.w[i] = SleptAndKilled(pair.w[i]),
                !.alone[i] = IF pair.alone[i].pc = "sleep"
                             THEN SleptAndKilled(pair.alone[i]) ELSE pair.alone[i],
                !.qdels[i] = pair.qdels[i] \cup KillsOfTurn(pair.w[i]),
                !.late[i] = pair.late[i] \cup (KillsOfTurn(pair.w[i]) \ DOMAIN pair.sge),
                !.sge = IF works
                        THEN Restrict(pair.sge,
                                      DOMAIN pair.sge \ KillsOfTurn(pair.w[i]))
                        ELSE pair.sge]
    /\ UNCHANGED <<runnerv, ljr, icq, sub>>

PairNext == JobMoves \/ \E i \in 1..2 : PairQuery(i) \/ PairSleepKill(i)

PairSpec == PairInit /\ [][PairNext]_vars

\* ------------------------------------------------ IceQuiver: bins and chunks
\* numbers of clusters and range ends around the multiples of the bin size
KeyCounts == {b * BinSize + r : b \in 0..(MaxBins - 1), r \in {0, 1, 50, 99}}
Marks == KeyCounts \cup {-1, MaxBins * BinSize}

\* keys = sorted([x for x in uc]): distinct cluster ids in increasing order
ClusterIds(n, first, gap) == [j \in 1..n |-> first + gap * (j - 1)]
KeySeqs == {ClusterIds(n, 0, 1) : n \in KeyCounts}
             \cup {ClusterIds(n, 7, 3) : n \in KeyCounts}

IceProcs == DOMAIN icq.procs

IceStep(p, c, w, jid) ==
    icq' = [icq EXCEPT !.procs[p] = c, !.written = w, !.next_jid = jid]

\* where create_quiver_bins_and_submit_jobs returns to
Returned(c) == IF c.from = "guard" THEN "returned" ELSE "back"

\* create_quiver_bins_and_submit_jobs(keys, start, end, submitted) is called
BinInit ==
    /\ RunnerIdle /\ ljr = LocalIdle /\ pair = PairIdle /\ sub = SubIdle
    /\ icq \in {[keys |-> ks, use_sge |-> u,
                 procs |-> [p \in {0} |-> IceCall(0, 1, s, e, "guard")],
                 written |-> {}, next_jid |-> 1] :
                  ks \in KeySeqs, u \in BOOLEAN, s \in Marks, e \in Marks}

\* process_chunk_i(i, num_chunks) is called for i = 0 .. num_chunks, each call
\* in a process of its own, over the same pickled clusters
ChunkInit ==
    /\ RunnerIdle /\ ljr = LocalIdle /\ pair = PairIdle /\ sub = SubIdle
    /\ icq \in {[keys |-> ks, use_sge |-> u,
                 procs |-> [p \in 0..n |-> IceCall(p, n, 0, 0, "chunk")],
                 written |-> {}, next_jid |-> 1] :
                  ks \in KeySeqs, u \in BOOLEAN, n \in 1..MaxChunks}

\* process_chunk_i up to the call of create_quiver_bins_and_submit_jobs: the
\* test of i, the report of chunk 0, the range of chunk i
ProcessChunk(p) ==
    /\ p \in IceProcs /\ icq.procs[p].pc = "chunk"
    /\ LET c == icq.procs[p]
           total == Len(icq.keys)
       IN IF c.i >= c.num_chunks
          THEN IceStep(p, [c EXCEPT !.pc = "raised", !.error = "ValueError"],
                       icq.written, icq.next_jid)
          ELSE IceStep(p, [c EXCEPT !.pc = "guard",
                                    !.start = ChunkStart(total, c.num_chunks, c.i),
                                    !.end = ChunkEnd(total, c.num_chunks, c.i),
                                    !.pos = ChunkStart(total, c.num_chunks, c.i)],
                       IF c.i = 0
                       THEN icq.written \cup {[path |-> report_fn, by |-> p,
                                               what |-> "report", n |-> 0,
                                               content |-> <<>>]}
                       ELSE icq.written,
                       icq.next_jid)
    /\ UNCHANGED <<runnerv, ljr, pair, sub>>

\* create_quiver_bins_and_submit_jobs up to its loop: the test of the range,
\* then refs[keys[start]] is looked up
BinsGuard(p) ==
    /\ p \in IceProcs /\ icq.procs[p].pc = "guard"
    /\ LET c == icq.procs[p]
       IN IF NoBins(icq.keys, c.start, c.end)
          THEN IceStep(p, [c EXCEPT !.pc = Returned(c), !.ret = Some(<<>>)],
                       icq.written, icq.next_jid)
          ELSE IF c.start >= Len(icq.keys)
          THEN IceStep(p, [c EXCEPT !.pc = "raised", !.error = "IndexError"],
                       icq.written, icq.next_jid)
          ELSE IceStep(p, [c EXCEPT !.pc = "bins", !.pos = c.start],
                       icq.written, icq.next_jid)
    /\ UNCHANGED <<runnerv, ljr, pair, sub>>

\* one turn of the loop, first half: the clusters of the bin are cut out and
\* create_a_quiver_bin writes the script of the bin
CreateBin(p) ==
    /\ p \in IceProcs /\ icq.procs[p].pc = "bins"
    /\ icq.procs[p].pos < icq.procs[p].end
    /\ LET c == icq.procs[p]
           cids == BinCids(icq.keys, c.pos, c.end)
       IN IF cids = <<>>
          THEN IceStep(p, [c EXCEPT !.pc = "raised", !.error = "IndexError"],
                       icq.written, icq.next_jid)
          ELSE IceStep(p, [c EXCEPT !.pc = "submit",
                                    !.bins = Append(c.bins, cids),
                                    !.all_todo = Append(c.all_todo,
                                                   create_quiver_sh_for_bin(cids))],
                       icq.written \cup {[path |-> create_quiver_sh_for_bin(cids),
                                          by |-> p, what |-> "script",
                                          n |-> Len(c.bins) + 1, content |-> cids]},
                       icq.next_jid)
    /\ UNCHANGED <<runnerv, ljr, pair, sub>>

\* faulty variant: the new entry goes to the front of submitted
SubmitBin_NewestFirst(p) ==
    /\ p \in IceProcs /\ icq.procs[p].pc = "submit"
    /\ LET c == icq.procs[p]
           job == c.all_todo[Len(c.all_todo)]
       IN IF icq.use_sge
          THEN IceStep(p, [c EXCEPT !.pc = "bins", !.pos = c.pos + BinSize,
                             !.submitted = <<<<ToString(icq.next_jid), job>>>>
                                              \o c.submitted],
                       icq.written, icq.next_jid + 1)
          ELSE IceStep(p, [c EXCEPT !.pc = "bins", !.pos = c.pos + BinSize,
                             !.submitted = <<<<"local", job>>>> \o c.submitted],
                       icq.written, icq.next_jid)
    /\ UNCHANGED <<runnerv, ljr, pair, sub>>

\* second half: submit_todo_quiver_jobs(todo=[bin_sh]) runs the script or
\* hands it to qsub, which gives the job its id
SubmitBin(p) ==
    /\ p \in IceProcs /\ icq.procs[p].pc = "submit"
    /\ LET c == icq.procs[p]
           job == c.all_todo[Len(c.all_todo)]
       IN IF icq.use_sge
          THEN IceStep(p, [c EXCEPT !.pc = "bins", !.pos = c.pos + BinSize,
                             !.submitted = Append(c.submitted,
                                                  <<ToString(icq.next_jid), job>>)],
                       icq.written, icq.next_jid + 1)
          ELSE IceStep(p, [c EXCEPT !.pc = "bins", !.pos = c.pos + BinSize,
                             !.submitted = Append(c.submitted, <<"local", job>>)],
                       icq.written, icq.next_jid)
    /\ UNCHANGED <<runnerv, ljr, pair, sub>>

\* the loop is over: return all_todo
BinsReturn(p) ==
    /\ p \in IceProcs /\ icq.procs[p].pc = "bins"
    /\ icq.procs[p].pos >= icq.procs[p].end
    /\ LET c == icq.procs[p]
       IN IceStep(p, [c EXCEPT !.pc = Returned(c), !.ret = Some(c.all_todo)],
                  icq.written, icq.next_jid)
    /\ UNCHANGED <<runnerv, ljr, pair, sub>>

\* process_chunk_i after the call: the log of the submitted jobs and the
\* script of all jobs of the chunk are written
WriteLogs(p) ==
    /\ p \in IceProcs /\ icq.procs[p].pc = "back"
    /\ LET c == icq.procs[p]
       IN IceStep(p, [c EXCEPT !.pc = "done"],
                  icq.written \cup
                    {[path |-> submitted_quiver_jobs_log_of_chunk_i(c.i, c.num_chunks),
                      by |-> p, what |-> "log", n |-> 0, content |-> c.submitted],
                     [path |-> quiver_jobs_sh_of_chunk_i(c.i, c.num_chunks),
                      by |-> p, what |-> "sh", n |-> 0, content |-> Val(c.ret)]},
                  icq.next_jid)
    /\ UNCHANGED <<runnerv, ljr, pair, sub>>

\* create_quiver_bins(keys, start, end) is called
CqbInit ==
    /\ RunnerIdle /\ ljr = LocalIdle /\ pair = PairIdle /\ sub = SubIdle
    /\ icq \in {[keys |-> ks, use_sge |-> u,
                 procs |-> [p \in {0} |-> IceCall(0, 1, s, e, "cqb")],
                 written |-> {}, next_jid |-> 1] :
                  ks \in KeySeqs, u \in BOOLEAN,
                  s \in Marks \ {-1}, e \in Marks \ {-1}}

\* one turn of for i in xrange(start, end, 100): the bin is cut out,
\* create_a_quiver_bin writes its script and returns the path, and
\* bin_scripts += bin_sh; first, last = cids[0], cids[-1] fails on no cids
CqbBin(p) ==
    /\ p \in IceProcs /\ icq.procs[p].pc = "cqb"
    /\ icq.procs[p].pos < icq.procs[p].end
    /\ LET c == icq.procs[p]
           cids == BinCids(icq.keys, c.pos, c.end)
       IN IF cids = <<>>
          THEN IceStep(p, [c EXCEPT !.pc = "raised", !.error = "IndexError"],
                       icq.written, icq.next_jid)
          ELSE IceStep(p, [c EXCEPT !.pos = c.pos + BinSize,
                                    !.bins = Append(c.bins, cids),
                                    !.bin_scripts =
                                       ListExtendByStr(c.bin_scripts,
                                                       create_quiver_sh_for_bin(cids))],
                       icq.written \cup {[path |-> create_quiver_sh_for_bin(cids),
                                          by |-> p, what |-> "script",
                                          n |-> Len(c.bins) + 1, content |-> cids]},
                       icq.next_jid)
    /\ UNCHANGED <<runnerv, ljr, pair, sub>>

\* the loop is over: return bin_scripts
CqbReturn(p) ==
    /\ p \in IceProcs /\ icq.procs[p].pc = "cqb"
    /\ icq.procs[p].pos >= icq.procs[p].end
    /\ LET c == icq.procs[p]
       IN IceStep(p, [c EXCEPT !.pc = "returned", !.ret = Some(c.bin_scripts)],
                  icq.written, icq.next_jid)
    /\ UNCHANGED <<runnerv, ljr, pair, sub>>

CqbNext == CqbBin(0) \/ CqbReturn(0)

CqbSpec == CqbInit /\ [][CqbNext]_vars

BinNext ==
    \E p \in 0..MaxChunks :
        BinsGuard(p) \/ CreateBin(p) \/ SubmitBin(p) \/ BinsReturn(p)

BinSpec == BinInit /\ [][BinNext]_vars

ChunkNext ==
    \E p \in 0..MaxChunks :
        \/ ProcessChunk(p) \/ BinsGuard(p) \/ CreateBin(p) \/ SubmitBin(p)
        \/ BinsReturn(p) \/ WriteLogs(p)

ChunkSpec == ChunkInit /\ [][ChunkNext]_vars

\* the same call made twice, by two processes over the same clusters: twice
\* process_chunk_i(i, num_chunks), or twice
\* create_quiver_bins_and_submit_jobs(keys, start, end)
RerunInit ==
    /\ RunnerIdle /\ ljr = LocalIdle /\ pair = PairIdle /\ sub = SubIdle
    /\ icq \in {[keys |-> ks, use_sge |-> u,
                 procs |-> [p \in 0..1 |-> IceCall(i, n, 0, 0, "chunk")],
                 written |-> {}, next_jid |-> 1] :
                  ks \in KeySeqs, u \in BOOLEAN, n \in 1..MaxChunks, i \in 0..MaxChunks}
            \cup
            {[keys |-> ks, use_sge |-> u,
              procs |-> [p \in 0..1 |-> IceCall(0, 1, s, e, "guard")],
              written |-> {}, next_jid |-> 1] :
                  ks \in KeySeqs, u \in BOOLEAN, s \in Marks, e \in Marks}

RerunSpec == RerunInit /\ [][ChunkNext]_vars

\* ----------------------------------- submit_todo_quiver_jobs called on its own
TodoPool == {script_of_quivered_bin(0, 99), script_of_quivered_bin(100, 199)}
\* sge_opts.max_sge_jobs: an integer option, nothing keeps it positive
MaxSgeJobs == {-1, 0, 1, 2, MaxTodo + 1}
SubmittedBefore == {<<>>, <<<<"local", script_of_quivered_bin(200, 299)>>>>}

SubInit ==
    /\ RunnerIdle /\ ljr = LocalIdle /\ icq = IcqIdle /\ pair = PairIdle
    /\ sub \in {SubCall(todo, submitted, u, m, "call") :
                  todo \in SeqsUpTo(TodoPool, MaxTodo),
                  submitted \in SubmittedBefore, u \in BOOLEAN, m \in MaxSgeJobs}

SubUnchanged == UNCHANGED <<runnerv, ljr, icq, pair>>

\* the if: run locally, or hand to SGE
SubEnter ==
    /\ sub.pc = "call"
    /\ sub' = [sub EXCEPT !.pc = IF DontUseSge(sub.use_sge, sub.max_sge_jobs)
                                 THEN "local" ELSE "while",
                          !.k = 1]
    /\ SubUnchanged

\* for job in todo: run_cmd_and_log returns and ("local", job) is appended, or
\* it raises
SubRunLocal ==
    /\ sub.pc = "local" /\ sub.k <= Len(sub.todo)
    /\ \E ok \in BOOLEAN :
         sub' = IF ok
                THEN [sub EXCEPT !.submitted = Append(sub.submitted,
                                                      <<"local", sub.todo[sub.k]>>),
                                 !.k = sub.k + 1]
                ELSE [sub EXCEPT !.pc = "raised", !.error = "RuntimeError"]
    /\ SubUnchanged

\* the for loop over todo is over: todo = [] (the name, not the caller's list)
SubLocalDone ==
    /\ sub.pc = "local" /\ sub.k > Len(sub.todo)
    /\ sub' = [sub EXCEPT !.pc = "returned"]
    /\ SubUnchanged

\* while len(todo) > 0: n = min(max_sge_jobs, len(todo)), the loop over
\* todo[:n] begins
SubWhile ==
    /\ sub.pc = "while"
    /\ sub' = IF Len(sub.todo) > 0
              THEN [sub EXCEPT !.pc = "for", !.k = 1,
                               !.slice = SgeBatch(sub.todo, sub.max_sge_jobs)]
              ELSE [sub EXCEPT !.pc = "returned"]
    /\ SubUnchanged

\* for job in todo[:n]: qsub_cmd_and_log returns the job id, (job_id, job) is
\* appended and the job is removed from todo; or it raises
SubQsub ==
    /\ sub.pc = "for" /\ sub.k <= Len(sub.slice)
    /\ \E ok \in BOOLEAN :
         sub' = IF ok
                THEN [sub EXCEPT
                        !.submitted = Append(sub.submitted,
                                        <<ToString(sub.next_jid), sub.slice[sub.k]>>),
                        !.qsubs = Append(sub.qsubs,
                                        <<sub.slice[sub.k], ToString(sub.next_jid)>>),
                        !.todo = RemoveFirst(sub.todo, sub.slice[sub.k]),
                        !.next_jid = sub.next_jid + 1,
                        !.k = sub.k + 1]
                ELSE [sub EXCEPT !.pc = "raised", !.error = "RuntimeError"]
    /\ SubUnchanged

\* the for loop over todo[:n] is over: back to the while
SubForDone ==
    /\ sub.pc = "for" /\ sub.k > Len(sub.slice)
    /\ sub' = [sub EXCEPT !.pc = "while"]
    /\ SubUnchanged

SubNext ==
    SubEnter \/ SubRunLocal \/ SubLocalDone \/ SubWhile \/ SubQsub \/ SubForDone

SubSpec == SubInit /\ [][SubNext]_vars

\* the call keeps running while it has a step to take
FairSubSpec == SubInit /\ [][SubNext]_vars /\ WF_vars(SubNext)

\* ------------------------------------------------------------------ claims
Ceil(a, b) == (a + b - 1) \div b
Requested == Range(jids)
StillListed == Requested \cap DOMAIN active_d
KillsOf(j) == {e \in qdel_log : e.jid = j}
RunKilledBefore(j, cycle) ==
    \E e \in qdel_log : e.jid = j /\ e.policy = "run" /\ e.cycle < cycle

\* C1: with wait_timeout set, the wait never goes on once the elapsed wait has
\* reached wait_timeout: at the first cycle where time_passed >= wait_timeout
\* every requested job still listed is killed under the wait policy, is in the
\* returned killed list, and the wait has returned.
C1_WaitTimeoutKillsEveryActive ==
    IsSet(wait_timeout) =>
      /\ pc = "wait" => time_passed < Val(wait_timeout)
      /\ time_passed >= Val(wait_timeout) =>
           /\ pc = "waited"
           /\ time_passed - check_sge_every_n_seconds < Val(wait_timeout)
           /\ StillListed # {}
           /\ \A j \in StillListed :
                /\ j \in Range(Val(wait_ret))
                /\ [jid |-> j, cycle |-> count, policy |-> "wait"] \in qdel_log

\* C1 witness: wait_timeout = 15, a job queued in both cycles (never seen
\* running though running time is tracked) is killed in cycle 2 and returned.
C1_Witness ==
    /\ wait_timeout = Some(15) /\ IsSet(run_timeout)
    /\ pc = "waited" /\ count = 2 /\ time_passed = 20
    /\ \E j \in StillListed :
         /\ active_d[j] = <<"q", "w">>
         /\ runtime_passed[j] = 0
         /\ j \in Range(Val(wait_ret))
         /\ KillsOf(j) = {[jid |-> j, cycle |-> 2, policy |-> "wait"]}

C3_NoTimeoutNoKill ==
    (~IsSet(wait_timeout) /\ ~IsSet(run_timeout)) =>
      /\ qdel_log = {}
      /\ \A j \in Requested : killed_jobs[j] = 0
      /\ pc = "waited" =>
           /\ wait_ret = Some(<<>>)
           /\ Requested \cap DOMAIN active_d = {}
           /\ polls = count + 1

\* C3 witness: a job listed in 3 polls, then absent: returned at poll 4.
C3_Witness ==
    /\ ~IsSet(wait_timeout) /\ ~IsSet(run_timeout)
    /\ Requested # {}
    /\ pc = "waited" /\ sge_up /\ count = 3 /\ polls = 4
    /\ wait_ret = Some(<<>>)

\* C4: a job's accumulated running time changes only by +10 in a cycle whose
\* poll lists it with a state code starting with 'r'; a run-policy kill hits
\* only jobs whose own accumulated time has reached run_timeout, leaves the
\* other listed jobs alone, and the wait goes on.
C4_RunTimeoutPerJob ==
    [][pc = "wait" =>
         /\ \A j \in Requested :
              \/ runtime_passed'[j] = runtime_passed[j]
              \/ /\ runtime_passed'[j] = runtime_passed[j] + check_sge_every_n_seconds
                 /\ IsSet(run_timeout)
                 /\ j \in DOMAIN active_d'
                 /\ active_d'[j][1] = "r"
         /\ \A e \in qdel_log' \ qdel_log :
              e.policy = "run" =>
                /\ IsSet(run_timeout)
                /\ runtime_passed'[e.jid] >= Val(run_timeout)
                /\ pc' = "wait"
                /\ \A j \in Requested \ {e.jid} :
                     runtime_passed'[j] < Val(run_timeout) =>
                       /\ killed_jobs'[j] = killed_jobs[j]
                       /\ KillsOf(j)' = KillsOf(j)
    ]_vars

\* C4 witness: one job killed under the run policy in this cycle while another
\* listed job, held in the queue, is not killed and the wait continues.
C4_Witness ==
    /\ pc = "wait" /\ run_timeout = Some(20)
    /\ \E j1, j2 \in StillListed :
         /\ j1 # j2
         /\ KillsOf(j1) = {[jid |-> j1, cycle |-> count, policy |-> "run"]}
         /\ runtime_passed[j1] = 20
         /\ active_d[j2] = <<"h", "q", "w">>
         /\ runtime_passed[j2] = 0
         /\ KillsOf(j2) = {}

\* C5: a job killed under the run policy is out of the active set afterwards:
\* it gets no further kill, and the wait does not go on for the sake of jobs
\* that were all run-killed in an earlier cycle.
C5_RunKilledLeavesActiveSet ==
    /\ \A e1, e2 \in qdel_log :
         (e1.policy = "run" /\ e2.jid = e1.jid) => e2.cycle <= e1.cycle
    /\ (pc = "wait" /\ count >= 1) =>
         \E j \in StillListed : ~RunKilledBefore(j, count)

\* C6: a failed scheduler query ends nothing: after a poll that could not
\* reach the scheduler, made while requested jobs were being waited for, the
\* wait is still waiting (it has neither returned nor raised).
C6_QueryFailureIsTransient ==
    (~sge_up /\ count >= 1) => pc = "wait"

\* C9: a job is killed at most once (one cycle, one policy), and once the
\* wait has returned every requested job is either in the killed list, with
\* its one kill, or completed: not killed and absent from the last listing.
C9_OneTerminalStatus ==
    /\ \A j \in Requested : Cardinality(KillsOf(j)) <= 1
    /\ pc = "waited" =>
         \A j \in Requested :
           /\ j \in Range(Val(wait_ret)) <=> KillsOf(j) # {}
           /\ KillsOf(j) = {} => j \notin DOMAIN active_d

PairsOf(call) == Range(Zip(call.cmds_list, call.script_files))
AllKilled == UNION {Range(killed_log[d]) : d \in DOMAIN killed_log}
RescuedLocally ==
    {<<local_runs[i].cmd, local_runs[i].script>> :
        i \in {n \in DOMAIN local_runs : local_runs[n].code = 0}}

\* C7: with rescue 'sge' and budget left, the call that follows a wait with a
\* non-empty killed list is made on exactly the killed (command, script)
\* pairs, with the budget one lower.
C7_KilledSubsetResubmitted ==
    \A d \in DOMAIN killed_log :
      (rescue = "sge" /\ killed_log[d] # <<>> /\ Len(calls) > d) =>
        /\ PairsOf(calls[d + 1]) = Range(killed_log[d])
        /\ calls[d + 1].rescue_times = calls[d].rescue_times - 1

\* C8: whatever the rescue mode and budget, every pair killed by a wait and
\* not completed by a local rerun is in the value sge_job_runner returns.
C8_NoKilledWorkDropped ==
    (pc = "returned" /\ rescue \in {"None", "locally", "sge"}) =>
      \A p \in AllKilled \ RescuedLocally : p \in Range(Val(result))

\* C10: with rescue 'locally' and a budget above 0, the local reruns are the
\* killed pairs, each once, with throw_error=False, and the value returned is
\* the killed pairs whose rerun exited non-zero, in that order.
C10_LocalRescueOnce ==
    (rescue = "locally" /\ rescue_times > 0) =>
      LET killed == IF killed_log = <<>> THEN <<>> ELSE killed_log[1]
          failing == {i \in DOMAIN local_runs : local_runs[i].code # 0}
      IN  /\ Len(killed_log) <= 1
          /\ Len(local_runs) <= Len(killed)
          /\ \A i, j \in DOMAIN killed : killed[i] = killed[j] => i = j
          /\ \A i \in DOMAIN local_runs :
               /\ <<local_runs[i].cmd, local_runs[i].script>> = killed[i]
               /\ local_runs[i].throw_error = FALSE
          /\ pc = "returned" =>
               /\ Len(local_runs) = Len(killed)
               /\ Len(Val(result)) = Cardinality(failing)
               /\ Range(Val(result)) = {killed[i] : i \in failing}
               /\ \A a, b \in DOMAIN Val(result) :
                    a < b => \E i, j \in failing :
                               /\ i < j
                               /\ Val(result)[a] = killed[i]
                               /\ Val(result)[b] = killed[j]

\* C10 witness: budget 2, two killed pairs, the first rerun fails and the
\* second succeeds: each ran once and only the first is returned.
C10_Witness ==
    /\ rescue = "locally" /\ rescue_times = 2 /\ pc = "returned"
    /\ Len(killed_log) = 1 /\ Len(killed_log[1]) = 2
    /\ Len(local_runs) = 2
    /\ local_runs[1].code = 1 /\ local_runs[2].code = 0
    /\ result = Some(<<killed_log[1][1]>>)

\* C11: when the runner is called with rescue None, or with rescue_times <= 0
\* whatever the rescue mode, nothing is rerun locally and no nested call is
\* made, and the value returned is the list of (command, script) pairs of the
\* jobs the wait returned as killed, pair for pair: the command as it was
\* written to the script, and the script.
C11_NoRescueReturnsKilled ==
    (rescue = "None" \/ calls[1].rescue_times <= 0) =>
      /\ local_runs = <<>>
      /\ Len(calls) = 1
      /\ pc = "returned" =>
           /\ Len(killed_log) = 1
           /\ result = Some(killed_log[1])
           /\ Range(Val(wait_ret)) = {e.jid : e \in qdel_log}
           /\ Val(result) =
                [i \in DOMAIN Val(wait_ret) |->
                   <<files[jids_to_scripts[Val(wait_ret)[i]]][2],
                     jids_to_scripts[Val(wait_ret)[i]]>>]

\* C11 witness: rescue 'locally' with rescue_times = 0; two jobs were killed
\* and the two pairs are returned without a rerun.
C11_Witness ==
    /\ rescue = "locally" /\ calls[1].rescue_times = 0
    /\ pc = "returned"
    /\ Len(Val(result)) = 2
    /\ local_runs = <<>>

\* C12: with rescue 'sge' the nested calls are at most rescue_times many, each
\* is made with the budget of its caller less one, and a nested call is made
\* only while budget is left and there is something to resubmit: a wait that
\* killed nothing is followed by no nested call.
C12_RemoteRescueStops ==
    (rescue = "sge" /\ calls[1].cmds_list # <<>>) =>
      /\ Len(calls) - 1 <= calls[1].rescue_times
      /\ \A d \in 1..(Len(calls) - 1) :
           /\ calls[d + 1].rescue_times = calls[d].rescue_times - 1
           /\ calls[d].rescue_times > 0
           /\ killed_log[d] # <<>>

FailedAttempt(a) == a.code # 0 /\ a.slept = qsub_retry_sleep

\* C13: one call of sge_submit runs the qsub command at most qsub_try_times
\* times; an attempt is made only after attempts that all exited non-zero,
\* each followed by a sleep of 5 seconds; the call returns at the first attempt
\* that exits 0, without a sleep, and the job id it returns is the third token
\* of what that attempt printed; the call raises only after qsub_try_times
\* attempts that all exited non-zero.
C13_SubmitRetries ==
    /\ Len(qsub_log) <= qsub_try_times
    /\ \A i \in 1..(Len(qsub_log) - 1) : FailedAttempt(qsub_log[i])
    /\ pc = "qsub" =>
         /\ Len(qsub_log) = try_times - 1
         /\ \A i \in DOMAIN qsub_log : FailedAttempt(qsub_log[i])
    /\ (pc = "submit" /\ qsub_log # <<>>) =>
         LET last == qsub_log[Len(qsub_log)]
         IN  /\ last.code = 0 /\ last.slept = 0
             /\ last.out[1] = "Your" /\ last.out[2] = "job"
             /\ jids # <<>>
             /\ jids[Len(jids)] = last.out[3]
             /\ jids[Len(jids)] = ToString(next_jid - 1)
    /\ error = "RuntimeError: Unable to qsub CMD" =>
         /\ pc = "raised"
         /\ Len(qsub_log) = qsub_try_times
         /\ \A i \in DOMAIN qsub_log : FailedAttempt(qsub_log[i])

\* C13 witness: qsub_try_times = 2, the first attempt for the second command
\* failed and the second attempt succeeded; its job id was returned.
C13_Witness ==
    /\ qsub_try_times = 2 /\ pc = "submit" /\ idx = 3
    /\ Len(qsub_log) = 2
    /\ qsub_log[1].code = 1 /\ qsub_log[2].code = 0
    /\ jids[2] = qsub_log[2].out[3]

Exhausted ==
    /\ Len(qsub_log) = qsub_try_times
    /\ \A i \in DOMAIN qsub_log : qsub_log[i].code # 0

\* C14: once every attempt to submit the command at position idx has failed,
\* the runner raises the submission error and does nothing else: the commands
\* before it are the only ones submitted, the scripts up to its own are the
\* only ones written, no poll, no kill, no rescue and no return takes place.
\* A wait that killed jobs on a timeout returns without an error, and the list
\* it returns is the killed jobs.
C14_SubmitFailureStopsBatch ==
    /\ Exhausted =>
         /\ pc \in {"qsub", "raised"}
         /\ pc = "raised" => error = "RuntimeError: Unable to qsub CMD"
         /\ Len(jids) = idx - 1
         /\ DOMAIN files = {script_files[i] : i \in 1..idx}
         /\ polls = 0 /\ qdel_log = {} /\ killed_log = <<>>
         /\ local_runs = <<>> /\ Len(calls) = 1
         /\ result = None
    /\ (pc = "waited" /\ Len(calls) = 1) =>
         /\ error = "none"
         /\ Range(Val(wait_ret)) = {e.jid : e \in qdel_log}

\* C14 witness: two commands, the first is submitted, both attempts for the
\* second fail and the runner has raised; one job id, two scripts, no poll.
C14_Witness ==
    /\ Len(cmds_list) = 2 /\ qsub_try_times = 2
    /\ Exhausted /\ idx = 2
    /\ pc = "raised" /\ error = "RuntimeError: Unable to qsub CMD"
    /\ Len(jids) = 1 /\ polls = 0

\* C15: when the wait returns, every requested job that is not in the returned
\* killed list is absent from the listing of a poll the wait has made (its
\* last one); until then no job is given as finished, whatever was listed.
C15_CompletedOnlyWhenSeenAbsent ==
    /\ pc = "wait" => wait_ret = None
    /\ pc = "waited" =>
         /\ polls >= 1
         /\ \A j \in Requested \ Range(Val(wait_ret)) : j \notin DOMAIN active_d

\* C15 witness: two jobs and a reachable scheduler; at the second cycle one
\* job is still listed and is killed, the other is returned as not killed and
\* is absent from that poll's listing.
C15_Witness ==
    /\ pc = "waited" /\ sge_up /\ count = 2
    /\ Cardinality(Requested) = 2
    /\ \E j1, j2 \in Requested :
         /\ j1 \in Range(Val(wait_ret)) /\ j1 \in DOMAIN active_d
         /\ j2 \notin Range(Val(wait_ret)) /\ j2 \notin DOMAIN active_d
         /\ KillsOf(j2) = {}

\* C16: a wait starts only when every command of the batch has been
\* submitted, each script with its own job id; a local rerun or a nested call
\* is made only after the wait of the call that makes it has returned.
C16_SubmitThenWaitThenRescue ==
    /\ pc \in {"wait", "waited"} =>
         /\ Len(jids) = Len(cmds_list)
         /\ \A i \in DOMAIN cmds_list : jids_to_scripts[jids[i]] = script_files[i]
         /\ Len(killed_log) = Len(calls) - 1
    /\ (polls > 0 /\ Len(calls) = 1) => Len(jids) = Len(cmds_list)
    /\ Len(calls) <= Len(killed_log) + 1
    /\ local_runs # <<>> =>
         /\ pc \in {"rescue", "returned"}
         /\ polls > 0 /\ wait_ret # None
         /\ Len(killed_log) = 1

\* C16 witness: two commands were submitted, the wait polled twice and
\* returned both jobs as killed, and the first local rerun has been made.
C16_Witness ==
    /\ rescue = "locally" /\ pc = "rescue"
    /\ Len(jids) = 2 /\ polls = 2
    /\ Len(Val(wait_ret)) = 2
    /\ Len(local_runs) = 1

\* C17: the list the wait returns has no job id twice, has only requested
\* ids, and has exactly the ids that a kill was issued for, under the wait
\* policy or the run policy, in whatever number of cycles.
C17_ReturnedKilledSet ==
    pc = "waited" =>
      /\ \A a, b \in DOMAIN Val(wait_ret) :
           Val(wait_ret)[a] = Val(wait_ret)[b] => a = b
      /\ Range(Val(wait_ret)) \subseteq Requested
      /\ Range(Val(wait_ret)) = {e.jid : e \in qdel_log}

\* C17 witness: of two jobs one was killed in three cycles (twice under the
\* run policy, then under the wait policy) and the other once; the returned
\* list has the two ids.
C17_Witness ==
    /\ pc = "waited" /\ Len(Val(wait_ret)) = 2
    /\ \E j1, j2 \in Requested :
         /\ Cardinality(KillsOf(j1)) = 3
         /\ \E e \in KillsOf(j1) : e.policy = "run"
         /\ \E e \in KillsOf(j1) : e.policy = "wait"
         /\ Cardinality(KillsOf(j2)) = 1

FailedKills == IF IsSet(qdel_failed) THEN Val(qdel_failed) ELSE {}

\* C18: a kill runs qdel once for each job id it is given and takes no notice
\* of the exit code: a qdel that exits non-zero raises nothing (the only error
\* of a wait is a query that could not reach the scheduler), the job it was
\* run for is in the list the wait returns, its pair is in the killed pairs
\* the rescue works on, and with rescue 'locally' it gets its local rerun.
C18_KillIsBestEffort ==
    /\ FailedKills \subseteq {e.jid : e \in qdel_log}
    /\ \A e1, e2 \in qdel_log :
         (e1.jid = e2.jid /\ e1.cycle = e2.cycle) => e1 = e2
    /\ error \in {"none", "ValueError", "RuntimeError: Unable to qsub CMD",
                  "RuntimeError: Unable to get active qsub jobs."}
    /\ error = "RuntimeError: Unable to get active qsub jobs." => ~sge_up
    /\ (pc = "wait" /\ Len(calls) = 1) => \A j \in FailedKills : killed_jobs[j] > 0
    /\ (pc = "waited" /\ Len(calls) = 1) =>
         /\ error = "none"
         /\ FailedKills \subseteq Range(Val(wait_ret))
    /\ killed_log # <<>> =>
         \A i \in DOMAIN calls[1].cmds_list :
           ToString(i) \in FailedKills =>
             /\ \E n \in DOMAIN killed_log[1] :
                  killed_log[1][n][2] = calls[1].script_files[i]
             /\ (pc = "returned" /\ rescue = "locally" /\ rescue_times > 0) =>
                  \E n \in DOMAIN local_runs :
                    local_runs[n].script = calls[1].script_files[i]

\* C18 witness: two jobs; the qdel of the first exited non-zero and that of
\* the second exited 0; both are in the returned list and both are rerun
\* locally.
C18_Witness ==
    /\ FailedKills = {"1"}
    /\ {e.jid : e \in qdel_log} = {"1", "2"}
    /\ pc = "returned" /\ rescue = "locally" /\ error = "none"
    /\ Range(Val(wait_ret)) = {"1", "2"}
    /\ Len(local_runs) = 2

\* C19: with both timeouts set, a kill under the wait policy is issued in the
\* first cycle whose elapsed wait reaches wait_timeout, a kill under the run
\* policy in an earlier cycle, and a job killed under one policy gets no kill
\* under the other afterwards: the cap reached first is the only one acted on.
C19_EarlierCapWinsOnce ==
    (IsSet(wait_timeout) /\ IsSet(run_timeout)) =>
      /\ \A e \in qdel_log :
           /\ e.policy = "wait" =>
                e.cycle = Ceil(Val(wait_timeout), check_sge_every_n_seconds)
           /\ e.policy = "run" =>
                e.cycle < Ceil(Val(wait_timeout), check_sge_every_n_seconds)
      /\ \A e1, e2 \in qdel_log :
           (e1.jid = e2.jid /\ e1.policy = "run") => e2.policy = "run"

\* C20: the text written to the script of a command is the interpreter line
\* and one command line. With run_timeout set that line starts with 'timeout':
\* it is 'timeout <run_timeout>' followed by the command when the command does
\* not start with 'timeout', and the command itself when it does, so that
\* 'timeout' is never put in front twice; with run_timeout None it is the
\* command itself. The command line is what the job id is recorded with.
C20_TimeoutPrefix ==
    \A i \in DOMAIN calls[1].cmds_list \cap DOMAIN calls[1].script_files :
      calls[1].script_files[i] \in DOMAIN files =>
        LET cmd == calls[1].cmds_list[i]
            script == files[calls[1].script_files[i]]
            line == script[2]
        IN  /\ Len(script) = 2 /\ script[1] = "#!/bin/bash"
            /\ IsSet(run_timeout) => line[1] = "timeout"
            /\ (IsSet(run_timeout) /\ cmd[1] # "timeout") =>
                 line = <<"timeout", ToString(Val(run_timeout))>> \o cmd
            /\ cmd[1] = "timeout" => line = cmd
            /\ ~IsSet(run_timeout) => line = cmd
            /\ Cardinality({n \in DOMAIN line : line[n] = "timeout"}) <= 1
            /\ (Len(calls) = 1 /\ i <= Len(jids)) => jids_to_cmds[jids[i]] = line

\* C20 witness: run_timeout = 10; the first command, 'a.py', is written as
\* 'timeout 10 a.py' and the second, 'timeout 5 b.py', as it is; both are
\* submitted.
C20_Witness ==
    /\ run_timeout = Some(10) /\ Len(jids) = 2 /\ Len(calls) = 1
    /\ DOMAIN files = {"s1.sh", "s2.sh"}
    /\ calls[1].cmds_list = <<<<"a.py">>, <<"timeout", "5", "b.py">>>>
    /\ files["s1.sh"][2] = <<"timeout", "10", "a.py">>
    /\ files["s2.sh"][2] = <<"timeout", "5", "b.py">>

\* the call of local_job_runner: the commands that ended with a non-zero exit
\* code, and the n-th of them in the order of cmds_list
Spawned(i) == ljr.tasks[i].st = "done"
ExitedNonZero == {i \in DOMAIN ljr.tasks : Spawned(i) /\ Val(ljr.tasks[i].ret)[2] # 0}
NthFailed(n) ==
    CHOOSE i \in ExitedNonZero : Cardinality({j \in ExitedNonZero : j <= i}) = n

\* C21: with throw_error=False failing commands are no error, and the list
\* returned when pool.map has returned is the commands of cmds_list that ended
\* with a non-zero exit code: as many entries as there are such commands, the
\* n-th entry being the n-th of them in the order of cmds_list.
C21_ReturnsFailedSublist ==
    ~ljr.throw_error =>
      /\ ljr.error # "RuntimeError"
      /\ ljr.pc = "raised" => \E i \in DOMAIN ljr.tasks : ~Spawned(i)
      /\ (ljr.pc = "returned" /\ IsSet(ljr.rets)) =>
           /\ \A i \in DOMAIN ljr.tasks : Spawned(i)
           /\ Len(Val(ljr.result)) = Cardinality(ExitedNonZero)
           /\ \A n \in DOMAIN Val(ljr.result) :
                Val(ljr.result)[n] = ljr.cmds_list[NthFailed(n)]

\* C21 witness: ['true', 'false', 'true'] with throw_error=False returned
\* ['false'].
C21_Witness ==
    /\ ljr.cmds_list = <<"true", "false", "true">> /\ ~ljr.throw_error
    /\ ljr.pc = "returned"
    /\ ljr.result = Some(<<"false">>)

Unspawned == {i \in DOMAIN ljr.tasks : ljr.tasks[i].st = "unspawned"}

\* C23: a command whose process could not be started counts as a failed
\* command: the call ends as it does for failing commands, by returning the
\* failed list or raising the RuntimeError of throw_error, never with another
\* error, and the command is in the failed list that is returned.
C23_UnspawnedIsFailedCommand ==
    Unspawned # {} =>
      /\ ljr.error \in {"none", "RuntimeError"}
      /\ ljr.pc = "returned" =>
           \A i \in Unspawned : ljr.cmds_list[i] \in Range(Val(ljr.result))

\* C24: at no time are more than num_threads commands being executed, and
\* once the call has returned or raised no command is being executed any
\* more.
C24_BoundedPoolAndJoin ==
    /\ Cardinality(Executing(ljr.tasks)) <= ljr.num_threads
    /\ ljr.pc \in {"returned", "raised"} => Executing(ljr.tasks) = {}

RECURSIVE Concat(_)
Concat(ss) == IF ss = <<>> THEN <<>> ELSE Head(ss) \o Concat(Tail(ss))

\* a call of create_quiver_bins_and_submit_jobs with 0 <= start < end <= len(keys)
\* has returned
BinsMade(c) ==
    /\ c.pc \in {"returned", "back", "done"}
    /\ 0 <= c.start /\ c.start < c.end /\ c.end <= Len(icq.keys)

\* C25: for sorted keys and a range with 0 <= start < end <= len(keys), the
\* bins that create_quiver_bins_and_submit_jobs made are non-empty slices of
\* keys, one following the other without overlap, their concatenation is
\* keys[start:end], and every bin but the last has exactly 100 keys
C25_BinsPartitionRange ==
    \A p \in IceProcs :
        LET c == icq.procs[p]
        IN BinsMade(c) =>
             /\ \A b \in DOMAIN c.bins : c.bins[b] # <<>>
             /\ \A b \in DOMAIN c.bins :
                  c.bins[b] = SubSeq(icq.keys, c.start + BinSize * (b - 1) + 1,
                                     c.start + BinSize * (b - 1) + Len(c.bins[b]))
             /\ \A b \in DOMAIN c.bins :
                  b < Len(c.bins) => Len(c.bins[b]) = BinSize
             /\ \A a, b \in DOMAIN c.bins :
                  a # b => Range(c.bins[a]) \cap Range(c.bins[b]) = {}
             /\ Concat(c.bins) = SubSeq(icq.keys, c.start + 1, c.end)

\* two full bins and a shorter last one, cut from the middle of the keys
C25_Witness ==
    /\ 0 \in IceProcs /\ BinsMade(icq.procs[0])
    /\ icq.procs[0].pc = "returned"
    /\ icq.procs[0].start > 0 /\ icq.procs[0].end < Len(icq.keys)
    /\ Len(icq.procs[0].bins) = 3
    /\ Len(icq.procs[0].bins[3]) < BinSize

\* the calls process_chunk_i(i, num_chunks) with i < num_chunks that have
\* computed start and end
Ranged == {p \in IceProcs : icq.procs[p].from = "chunk"
                              /\ icq.procs[p].pc \notin {"chunk", "raised"}}
Indices(c) == {x \in 0..(Len(icq.keys) - 1) : c.start <= x /\ x < c.end}
NonEmpty == {p \in Ranged : icq.procs[p].start < icq.procs[p].end}
AllRanged ==
    /\ Ranged # {}
    /\ \A p \in Ranged : Ranged = 0..(icq.procs[p].num_chunks - 1)

\* C26: for total >= 0 clusters and n >= 1 chunks, the ranges that
\* process_chunk_i computes for i = 0 .. n-1 are n ranges; the non-empty ones
\* are pairwise disjoint, follow one another in the order of i, and cover
\* [0, total) with every index in exactly one chunk
C26_ChunksPartitionTotal ==
    /\ \A p \in Ranged : icq.procs[p].start <= icq.procs[p].end
    /\ \A p \in NonEmpty :
         0 <= icq.procs[p].start /\ icq.procs[p].end <= Len(icq.keys)
    /\ \A p, q \in NonEmpty :
         p < q => icq.procs[p].end <= icq.procs[q].start
    /\ AllRanged =>
         /\ \A p \in Ranged : Cardinality(Ranged) = icq.procs[p].num_chunks
         /\ \A p, q \in NonEmpty :
              (p < q /\ \A m \in NonEmpty : ~(p < m /\ m < q))
                  => icq.procs[p].end = icq.procs[q].start
         /\ NonEmpty = {} => Len(icq.keys) = 0
         /\ \A p \in NonEmpty :
              /\ (\A m \in NonEmpty : p <= m) => icq.procs[p].start = 0
              /\ (\A m \in NonEmpty : m <= p) => icq.procs[p].end = Len(icq.keys)

\* three chunks, the last one shorter than the first but not empty
C26_Witness ==
    /\ AllRanged /\ Ranged = 0..2 /\ NonEmpty = Ranged
    /\ icq.procs[2].end - icq.procs[2].start
         < icq.procs[0].end - icq.procs[0].start

\* m is ceil(total / n): the least m with m * n >= total
IsCeil(m, total, n) == m * n >= total /\ (m - 1) * n < total

\* C27: chunk i is [i * chunkSize, min(total, (i + 1) * chunkSize)) with
\* chunkSize = ceil(total / n); a chunk beyond total is that same (empty)
\* range, with start == end
C27_ChunkBounds ==
    \A p \in Ranged :
        LET c == icq.procs[p]
            total == Len(icq.keys)
            chunkSize == Ceil(total, c.num_chunks)
            lo == c.i * chunkSize
            hi == Min(total, (c.i + 1) * chunkSize)
        IN /\ IsCeil(chunkSize, total, c.num_chunks)
           /\ c.start = lo
           /\ lo <= total => c.end = hi
           /\ \/ c.start = lo /\ c.end = hi
              \/ c.start >= c.end /\ lo >= hi
           /\ lo >= total => c.start = c.end

\* a chunk that begins beyond the last cluster
C27_Witness ==
    \E p \in Ranged : /\ icq.procs[p].start > Len(icq.keys)
                      /\ icq.procs[p].start = icq.procs[p].end

\* the calls whose range [start, end) is empty
EmptyRanged ==
    {p \in IceProcs :
        /\ icq.procs[p].from = "guard"
             \/ (icq.procs[p].i < icq.procs[p].num_chunks
                   /\ icq.procs[p].pc # "chunk")
        /\ icq.procs[p].start >= icq.procs[p].end}
WrittenBy(p, what) == {w \in icq.written : w.by = p /\ w.what = what}

\* C28: an empty chunk is skipped without error: with start >= end
\* create_quiver_bins_and_submit_jobs makes no bin, writes no script, submits
\* nothing and returns [], and process_chunk_i goes on to write its two files
\* with no submitted job in them
C28_EmptyChunkSkipped ==
    \A p \in EmptyRanged :
        LET c == icq.procs[p]
        IN /\ c.error = "none"
           /\ c.pc \in {"guard", "back", "returned", "done"}
           /\ c.bins = <<>> /\ c.all_todo = <<>> /\ c.submitted = <<>>
           /\ WrittenBy(p, "script") = {}
           /\ c.pc \in {"back", "returned", "done"} => c.ret = Some(<<>>)
           /\ c.pc = "done" =>
                /\ \E w \in WrittenBy(p, "log") : w.content = <<>>
                /\ \E w \in WrittenBy(p, "sh") : w.content = <<>>

\* the call for an empty chunk is over while another chunk has submitted a job
C28_Witness ==
    \E p \in EmptyRanged :
        /\ icq.procs[p].pc = "done"
        /\ \E q \in IceProcs : icq.procs[q].submitted # <<>>

\* C29: with process_chunk_i running at the same time for distinct i over the
\* same sorted distinct cluster ids, no file is written twice: the scripts of
\* all bins of all chunks have pairwise distinct paths c{first}to{last}.sh, and
\* each chunk writes a submitted-jobs log and a jobs script of its own, named
\* by its (i, num_chunks)
C29_NoSharedFile ==
    /\ \A v, w \in icq.written :
         v.path = w.path => v = w
    /\ \A w \in icq.written :
         w.what = "script" =>
           /\ w.path[2] = "/c"
           /\ w.path[3] = ToString(w.content[1])
           /\ w.path[5] = ToString(w.content[Len(w.content)])
    /\ \A w \in icq.written :
         w.what \in {"log", "sh"} =>
           /\ w.path[3] = ToString(icq.procs[w.by].i)
           /\ w.path[5] = ToString(icq.procs[w.by].num_chunks)
    /\ \A p \in IceProcs :
         icq.procs[p].pc = "done" =>
           /\ Cardinality(WrittenBy(p, "log")) = 1
           /\ Cardinality(WrittenBy(p, "sh")) = 1
           /\ Cardinality(WrittenBy(p, "script")) = Len(icq.procs[p].bins)

\* two chunks of two bins each have written their scripts and their logs
C29_Witness ==
    \E p, q \in IceProcs :
        /\ p # q
        /\ icq.procs[p].pc = "done" /\ icq.procs[q].pc = "done"
        /\ Cardinality(WrittenBy(p, "script")) = 2
        /\ Cardinality(WrittenBy(q, "script")) = 2

\* C30: two calls of wait_for_sge_jobs running at the same time over disjoint
\* sets of job ids do not interfere, however their steps interleave: each
\* hands to qdel, counts as killed and returns only ids of its own set, and
\* its count, its elapsed wait, the running time of each of its jobs and its
\* result are those of the same call made with only its own jobs (and the
\* other user's) in the scheduler
C30_WaitsDoNotInterfere ==
    \A i \in DOMAIN pair.w :
        LET st == pair.w[i]
            al == pair.alone[i]
            own == Range(st.jids)
        IN  /\ pair.qdels[i] \subseteq own
            /\ KilledSet(st.killed_jobs) \subseteq own
            /\ IsSet(st.ret) => Val(st.ret) \subseteq own
            /\ st.pc = al.pc
            /\ st.count = al.count
            /\ st.time_passed = al.time_passed
            /\ st.runtime_passed = al.runtime_passed
            /\ st.killed_jobs = al.killed_jobs
            /\ st.ret = al.ret

\* both calls have returned, each having killed its own job, the first one
\* under the run timeout (it has no wait timeout)
C30_Witness ==
    /\ DOMAIN pair.w = {1, 2}
    /\ pair.w[1].pc = "returned" /\ pair.w[2].pc = "returned"
    /\ Val(pair.w[1].ret) = Range(pair.w[1].jids)
    /\ Val(pair.w[2].ret) = Range(pair.w[2].jids)
    /\ ~IsSet(pair.w[1].wait_timeout)
    /\ pair.qdels[1] # {} /\ pair.qdels[2] # {}

IsPrefix(a, b) == Len(a) <= Len(b) /\ a = SubSeq(b, 1, Len(a))

KilledInCycle(c, policy) == {e.jid : e \in {x \in qdel_log : x.cycle = c /\ x.policy = policy}}

\* C32: in every poll cycle the outstanding jobs are the requested jids that
\* the listing of that cycle holds, whatever the cycles before listed: a cycle
\* takes place only while that set is not empty, the wait returns when it is
\* empty, the kill at the wait timeout takes all of it, and no id outside jids
\* (another user's job is listed too) is killed, has running time counted or
\* is returned
C32_OutstandingIsRequestedAndListed ==
    pc \in {"wait", "waited"} =>
      /\ \A e \in qdel_log :
           /\ e.jid \in Requested
           /\ (e.cycle = count /\ polls = count) => e.jid \in DOMAIN active_d
      /\ \A c \in 1..count : KilledInCycle(c, "run") \subseteq Requested
      /\ (pc = "wait" /\ count > 0) => StillListed # {}
      /\ (pc = "waited" /\ polls = count + 1) => StillListed = {}
      /\ (pc = "waited" /\ polls = count) =>
           /\ StillListed # {}
           /\ KilledInCycle(count, "wait") = StillListed
      /\ DOMAIN runtime_passed = Requested
      /\ \A j \in DOMAIN killed_jobs : killed_jobs[j] > 0 => j \in Requested
      /\ IsSet(wait_ret) => Range(Val(wait_ret)) \subseteq Requested
      /\ OtherJid \notin {e.jid : e \in qdel_log}

\* the wait timeout strikes in the second cycle while one requested job has
\* left the listing and the other user's job is listed: the job still listed,
\* and no other, is killed and returned
C32_Witness ==
    /\ pc = "waited" /\ count = 2 /\ polls = 2
    /\ OtherJid \in DOMAIN active_d
    /\ Cardinality(Requested) = 2 /\ Cardinality(StillListed) = 1
    /\ KilledInCycle(2, "wait") = StillListed
    /\ Range(Val(wait_ret)) = StillListed

\* C33: all through wait_for_sge_jobs the accumulated running time of each
\* job is a non-negative multiple of the poll interval and at most the elapsed
\* wait; it never decreases, and it changes only in a cycle whose listing has
\* the job in a state that begins with 'r'
C33_RunningTimeAccounting ==
    [][pc = "wait" =>
         \A j \in Requested :
            /\ runtime_passed[j] >= 0 /\ runtime_passed'[j] >= 0
            /\ runtime_passed[j] % check_sge_every_n_seconds = 0
            /\ runtime_passed'[j] % check_sge_every_n_seconds = 0
            /\ runtime_passed[j] <= time_passed
            /\ runtime_passed'[j] <= time_passed'
            /\ runtime_passed'[j] >= runtime_passed[j]
            /\ time_passed' >= time_passed
            /\ runtime_passed'[j] # runtime_passed[j] =>
                 /\ count' = count + 1
                 /\ j \in DOMAIN active_d'
                 /\ Head(active_d'[j]) = "r"
    ]_vars

\* after three cycles one job has been running in two of them and the other,
\* queued throughout, in none
C33_Witness ==
    /\ pc = "wait" /\ count = 3 /\ time_passed = 30
    /\ \E j1, j2 \in Requested :
         /\ runtime_passed[j1] = 20
         /\ runtime_passed[j2] = 0
         /\ j2 \in DOMAIN active_d

SubAdded == SubSeq(sub.submitted, Len(sub.before) + 1, Len(sub.submitted))

\* C34: with SGE off or max_sge_jobs >= 1, submit_todo_quiver_jobs comes to an
\* end for every todo list, and when it returns every script of the todo list
\* as it was at the call has been appended to submitted exactly once, in the
\* order of the list, paired with 'local' when run locally and with the job
\* id that its qsub returned otherwise
C34_SubmitsAllOnce ==
    /\ (sub.use_sge # TRUE \/ sub.max_sge_jobs >= 1)
          => <>(sub.pc \in {"returned", "raised"})
    /\ []((sub.pc = "returned" /\ (sub.use_sge # TRUE \/ sub.max_sge_jobs >= 1)) =>
            /\ IsPrefix(sub.before, sub.submitted)
            /\ Len(SubAdded) = Len(sub.original)
            /\ \A n \in DOMAIN SubAdded : SubAdded[n][2] = sub.original[n]
            /\ sub.use_sge # TRUE => \A n \in DOMAIN SubAdded : SubAdded[n][1] = "local"
            /\ sub.use_sge = TRUE =>
                 /\ Len(sub.qsubs) = Len(sub.original)
                 /\ \A n \in DOMAIN SubAdded :
                      SubAdded[n] = <<sub.qsubs[n][2], sub.qsubs[n][1]>>)

\* three scripts, one of them twice in the list, have gone to SGE one by one
C34_Witness ==
    /\ sub.pc = "returned" /\ sub.use_sge /\ sub.max_sge_jobs = 1
    /\ Len(sub.original) = 3 /\ sub.original[1] = sub.original[3]
    /\ sub.original[1] # sub.original[2]
    /\ Len(SubAdded) = 3 /\ sub.todo = <<>>

\* the script of the n-th bin of keys[start:end], bins counted from 1
ScriptOfBinNo(n, c) ==
    script_of_quivered_bin(icq.keys[c.start + BinSize * (n - 1) + 1],
                           icq.keys[Min(c.end, c.start + BinSize * n)])

C36_OneScriptPerBin ==
    (icq.procs # <<>> /\ icq.procs[0].from = "cqb" /\ icq.procs[0].pc = "returned") =>
        LET c == icq.procs[0]
        IN /\ Len(Val(c.ret)) = Len(c.bins)
           /\ \A n \in DOMAIN c.bins :
                Val(c.ret)[n] = script_of_quivered_bin(c.bins[n][1],
                                                       c.bins[n][Len(c.bins[n])])

BothCapsWaitFirst ==
    IsSet(wait_timeout) /\ IsSet(run_timeout) /\ Val(wait_timeout) <= Val(run_timeout)

\* C37: with both caps set and wait_timeout <= run_timeout no job is ever
\* killed for its running time: the running time of every job stays below the
\* run cap as long as the wait goes on, and every qdel is the one of the wait
\* timeout, issued in the last cycle for all the requested jobs still listed
C37_OnlyWaitTimeoutKills ==
    (pc \in {"wait", "waited"} /\ BothCapsWaitFirst) =>
      /\ \A e \in qdel_log :
           /\ e.policy = "wait"
           /\ e.cycle = count
           /\ pc = "waited" /\ polls = count
           /\ time_passed >= Val(wait_timeout)
      /\ qdel_log # {} => {e.jid : e \in qdel_log} = StillListed
      /\ \A j \in Requested :
           /\ runtime_passed[j] <= time_passed
           /\ pc = "wait" => runtime_passed[j] < Val(run_timeout)
      /\ pc = "wait" => time_passed < Val(wait_timeout)

\* caps 15 and 20: the first cycle counts ten seconds of running time for a
\* job and kills nobody, the second cycle ends the wait with the wait-timeout
\* kill of both jobs
C37_Witness ==
    /\ pc = "waited" /\ BothCapsWaitFirst
    /\ Val(wait_timeout) = 15 /\ Val(run_timeout) = 20
    /\ count = 2 /\ polls = 2
    /\ Cardinality(Requested) = 2
    /\ \E j \in Requested : runtime_passed[j] = check_sge_every_n_seconds
    /\ {e.jid : e \in qdel_log} = Requested
    /\ \A e \in qdel_log : e.policy = "wait"

SnapshotOf(st) == Range(st.jids) \cap DOMAIN st.active_d

\* C38: each cycle of wait_for_sge_jobs asks the scheduler once, before its
\* sleep, and the rest of the cycle works on that listing: the listing is
\* replaced only by the query at the head of a cycle, the step after a query
\* that found jobs is the sleep with the kills, and the jobs killed there are
\* chosen from the listing of that query whatever the scheduler holds by
\* then (all of its requested jobs at the wait timeout, those whose running
\* time has reached the cap otherwise); what is killed is what is returned
C38_KillsUseTheSnapshot ==
    /\ [][\A i \in DOMAIN pair.w :
            LET st == pair.w[i]
                nx == pair'.w[i]
            IN /\ nx.active_d # st.active_d => st.pc = "query"
               /\ (st.pc = "query" /\ nx # st) =>
                    /\ nx.count = st.count /\ nx.time_passed = st.time_passed
                    /\ pair'.qdels[i] = pair.qdels[i]
                    /\ nx.pc = "sleep" <=> (~(nx.pc = "raised") /\ SnapshotOf(nx) # {})
               /\ nx.count # st.count =>
                    /\ st.pc = "sleep" /\ nx.count = st.count + 1
                    /\ nx.pc \in {"query", "returned"}
               /\ (st.pc = "sleep" /\ nx # st) =>
                    /\ nx.active_d = st.active_d
                    /\ nx.count = st.count + 1
                    /\ pair'.qdels[i] \ pair.qdels[i] \subseteq SnapshotOf(st)
                    /\ IF IsSet(st.wait_timeout) /\ nx.time_passed >= Val(st.wait_timeout)
                       THEN pair'.qdels[i] = pair.qdels[i] \cup SnapshotOf(st)
                       ELSE IF IsSet(st.run_timeout)
                       THEN pair'.qdels[i] = pair.qdels[i] \cup
                              {j \in SnapshotOf(st) :
                                 nx.runtime_passed[j] >= Val(st.run_timeout)}
                       ELSE pair'.qdels[i] = pair.qdels[i]]_vars
    /\ [](\A i \in DOMAIN pair.w :
            pair.w[i].pc = "returned" => Val(pair.w[i].ret) = pair.qdels[i])

\* a job left the scheduler while the first call slept; the call killed it
\* all the same, from the listing it had, and returned it as killed
C38_Witness ==
    /\ pair.w # <<>> /\ pair.w[1].pc = "returned"
    /\ \E j \in pair.late[1] :
         /\ j \in Range(pair.w[1].jids)
         /\ j \in DOMAIN pair.w[1].active_d
         /\ j \in Val(pair.w[1].ret)

\* the command of position i as the submission loop writes it
WrittenCmd(i) ==
    IF IsSet(run_timeout) /\ cmds_list[i][1] # "timeout"
    THEN <<"timeout", ToString(Val(run_timeout))>> \o cmds_list[i]
    ELSE cmds_list[i]

\* C39: every (command, script) pair that sge_job_runner returns is the pair
\* of one submitted job: the script is the path the caller gave for a command
\* of the batch, the command is the text written to that script, with the
\* timeout prefix when the runner added one, and no job comes back twice; a
\* local rescue runs that same text
C39_ReturnedPairIsOneJob ==
    /\ (pc = "returned" /\ IsSet(result)) =>
         /\ \A n \in DOMAIN Val(result) :
              LET pr == Val(result)[n]
              IN  \E i \in DOMAIN cmds_list :
                     /\ i <= Len(jids)
                     /\ pr[2] = script_files[i]
                     /\ pr[1] = WrittenCmd(i)
                     /\ files[pr[2]] = <<"#!/bin/bash", pr[1]>>
         /\ \A n, m \in DOMAIN Val(result) :
              n # m => Val(result)[n][2] # Val(result)[m][2]
    /\ \A n \in DOMAIN local_runs :
         /\ local_runs[n].script \in DOMAIN files
         /\ files[local_runs[n].script] = <<"#!/bin/bash", local_runs[n].cmd>>
         /\ \E i \in DOMAIN cmds_list :
              /\ local_runs[n].script = script_files[i]
              /\ local_runs[n].cmd = WrittenCmd(i)

\* two jobs were killed, one of them with a command that the runner had
\* prefixed, and both pairs are returned without rescue
C39_Witness ==
    /\ pc = "returned" /\ IsSet(result) /\ rescue = "None"
    /\ Len(Val(result)) = 2
    /\ cmds_list[1] # cmds_list[2]
    /\ \E n \in 1..2 : Val(result)[n] = <<<<"timeout", "10", "a.py">>, script_files[1]>>
    /\ \E n \in 1..2 : Val(result)[n] = <<cmds_list[2], script_files[2]>>

\* a killed command that the runner had prefixed was run again locally, failed
\* and is returned
C39_WitnessLocal ==
    /\ pc = "returned" /\ IsSet(result) /\ rescue = "locally"
    /\ Len(local_runs) = 2 /\ Len(Val(result)) = 1
    /\ Val(result)[1][1] = <<"timeout", "10", "a.py">>

QsubFailedForGood == pc = "raised" /\ error = "RuntimeError: Unable to qsub CMD"

\* C40: when sge_submit gives up on the command at position idx, the idx - 1
\* jobs submitted before it stay as they are: none of them is handed to qdel,
\* no wait is started on them (no query of the scheduler, no cycle, no
\* running time kept), their ids go to nobody (no value is returned, no list
\* of killed jobs exists), and the runner takes no further step
C40_SubmittedJobsLeftAlone ==
    /\ [](QsubFailedForGood =>
            /\ Len(jids) = idx - 1
            /\ \A j \in Range(jids) : \A e \in qdel_log : e.jid # j
            /\ polls = 0 /\ count = 0 /\ time_passed = 0
            /\ DOMAIN runtime_passed = {} /\ active_d = NoJobs
            /\ wait_ret = None /\ result = None
            /\ killed_cmds = <<>> /\ killed_scripts = <<>> /\ ret = <<>>
            /\ DOMAIN jids_to_scripts = Range(jids))
    /\ [][QsubFailedForGood => UNCHANGED vars]_vars

\* the first command went to the scheduler as job 1, the second could not be
\* submitted in two attempts: the runner has raised and job 1 is untouched
C40_Witness ==
    /\ QsubFailedForGood
    /\ Len(cmds_list) = 2 /\ idx = 2 /\ jids = <<"1">>
    /\ Len(qsub_log) = 2 /\ qsub_try_times = 2
    /\ qdel_log = {} /\ polls = 0

====
